----------------------------- MODULE MCIndexer -----------------------------
(* One market; ledgers without events, with one and with two, among them    *)
(* two submissions of different outcomes in one ledger.                     *)
EXTENDS Indexer

CONSTANTS m, yes, no

MCMarkets == {m}
MCOutcomes == {yes, no}
Ev(kind, outcome) == [kind |-> kind, market |-> m, outcome |-> outcome]
MCLedgerContents ==
    {<<>>,
     <<Ev("oracle_submission", yes), Ev("oracle_submission", no)>>,
     <<Ev("oracle_dispute", no)>>,
     <<Ev("other", no), Ev("oracle_finalized", no)>>}
============================================================================
