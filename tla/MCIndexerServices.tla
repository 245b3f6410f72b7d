-------------------------- MODULE MCIndexerServices --------------------------
(* Five services of the indexer that share no state, checked in one run: a     *)
(* behaviour is about one of them, and the others stay in their initial state. *)
EXTENDS EventHandlers, DeadLetters, Attestations, DataProvider, Reorg

VARIABLE service
vars == <<service, handlerVars, letterVars, attestationVars, providerVars, reorgVars>>

Ev(d, a) == [domain |-> d, action |-> a, ok |-> TRUE, yes |-> TRUE]
MCHandlers == {<<"market", "*">>, <<"*", "claim">>, <<"token", "fee_withdrawn">>}
MCLogs ==
  {<<Ev("market", "bet"), [Ev("market", "bet") EXCEPT !.yes = FALSE], Ev("token", "claim")>>,
   <<Ev("token", "claim"), Ev("token", "fee_withdrawn"), Ev("token", "claim")>>,
   <<Ev("market", "reward_points"), Ev("token", "transfer"), Ev("explorer", "update")>>,
   <<Ev("market", "bet"), [Ev("token", "claim") EXCEPT !.ok = FALSE], Ev("market", "bet")>>}

Init ==
  /\ service \in {"handlers", "letters", "attestations", "provider", "reorg"}
  /\ HandlersInit /\ LettersInit /\ AttestationsInit /\ ProviderInit /\ ReorgInit
  /\ service # "handlers" => log = CHOOSE l \in Logs : TRUE

Next ==
  /\ UNCHANGED service
  /\ \/ /\ service = "handlers" /\ HandlersNext
        /\ UNCHANGED <<letterVars, attestationVars, providerVars, reorgVars>>
     \/ /\ service = "letters" /\ LettersNext
        /\ UNCHANGED <<handlerVars, attestationVars, providerVars, reorgVars>>
     \/ /\ service = "attestations" /\ AttestationsNext
        /\ UNCHANGED <<handlerVars, letterVars, providerVars, reorgVars>>
     \/ /\ service = "provider" /\ ProviderNext
        /\ UNCHANGED <<handlerVars, letterVars, attestationVars, reorgVars>>
     \/ /\ service = "reorg" /\ ReorgNext
        /\ UNCHANGED <<handlerVars, letterVars, attestationVars, providerVars>>

Fairness ==
  /\ \A b \in Batches : /\ WF_letterVars(service = "letters" /\ BatchStep(b))
                        /\ WF_letterVars(service = "letters" /\ Select(b))
  /\ \A l \in Letters : WF_letterVars(service = "letters" /\ BackoffEnds(l))
  /\ WF_providerVars(service = "provider" /\ ProviderTick)
  /\ \A c \in Callers : /\ WF_providerVars(service = "provider" /\ Acquire(c))
                        /\ WF_providerVars(service = "provider" /\ FetchEnds(c))
                        /\ WF_providerVars(service = "provider" /\ Retry(c))

Spec == Init /\ [][Next]_vars /\ Fairness
==============================================================================
