------------------------ MODULE MCDirectoryRequests -------------------------
(* Requests to Directory that overlap, and requests that do not.           *)
EXTENDS MCDirectory

\* In one half of the behaviours requests come one after the other, none of
\* which is a DeleteManifest; in the other they overlap, and are one less.
VARIABLE oneByOne
ConcurrentRequests == 3
UnderWay == {c \in Clients : pc[c] # "idle"}

EitherInit == Init /\ oneByOne \in BOOLEAN
EitherNext ==
  /\ Next /\ UNCHANGED oneByOne
  /\ IF oneByOne THEN /\ \A c, d \in UnderWay' : c = d
                      /\ \A c \in UnderWay' : req'[c].op # "DeleteManifest"
                 ELSE requests' <= ConcurrentRequests
EitherSpec == EitherInit /\ [][EitherNext]_<<vars, oneByOne>>

\* With requests that come one by one, the cached model is the stored one
\* whenever none is under way (SetManifest, its failure, and a restart).
CacheFreshOneByOne == oneByOne => CacheFresh

\* With requests that come one by one, nothing is stored that the stored
\* manifest does not admit (CanUpdate in SetManifest, Validate in the writers).
StoreConformsOneByOne == oneByOne => StoreConforms
=============================================================================
