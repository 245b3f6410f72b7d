----------------------------- MODULE MCApiReads -----------------------------
(* Reading through the API: the lists and their pages, and the caches.  A       *)
(* behaviour is about one of them, the other stays in its initial state.        *)
EXTENDS EventPages, ApiCaches

VARIABLE subject
readVars == <<subject, pageVars, cacheVars>>

ReadInit ==
  /\ subject \in {"pages", "caches"}
  /\ PagesInit /\ CachesInit
  /\ subject # "pages" => listing = CHOOSE l \in Listings : TRUE
  /\ subject # "caches" => cache = CHOOSE c \in Caches : TRUE

ReadNext ==
  /\ UNCHANGED subject
  /\ \/ subject = "pages" /\ PagesNext /\ UNCHANGED cacheVars
     \/ subject = "caches" /\ CachesNext /\ UNCHANGED pageVars

ReadSpec == ReadInit /\ [][ReadNext]_readVars
==============================================================================
