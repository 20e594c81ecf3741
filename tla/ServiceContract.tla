--------------------------- MODULE ServiceContract ---------------------------
(***************************************************************************)
(* What the tile service promises to those who ask it for a tile: one      *)
(* outcome for each request, which is an error or an image that the        *)
(* provider asked for, or one of its fallbacks, has given; and a cache     *)
(* that has only such images, and none of a provider with nocache.         *)
(***************************************************************************)
CONSTANTS
  Requests, Providers, NoCache,
  Images,  \* the images, whole or cut off, that are right for each provider
  None     \* no provider, no image

VARIABLES
  asked,   \* the provider each request under way is for
  reply,   \* the outcome of the last one: <<status, image>>
  saved    \* the entries <<provider, image>> of the cache

NoReply == <<"none", None>>

Init ==
  /\ asked = [r \in Requests |-> None]
  /\ reply = [r \in Requests |-> NoReply]
  /\ saved = {}

Ask(r, p) ==
  /\ asked[r] = None
  /\ asked' = [asked EXCEPT ![r] = p]
  /\ reply' = [reply EXCEPT ![r] = NoReply]
  /\ UNCHANGED saved

\* The address is not one of a tile.
Refuse(r) ==
  /\ asked[r] = None
  /\ reply' = [reply EXCEPT ![r] = <<"400", None>>]
  /\ UNCHANGED <<asked, saved>>

\* A worker of the prefetch gets no answer, it only closes what FTile returns.
Answer(r) ==
  /\ asked[r] # None
  /\ \/ reply' = [reply EXCEPT ![r] = NoReply]
     \/ reply' = [reply EXCEPT ![r] = <<"500", None>>]
     \/ \E c \in Images[asked[r]] : reply' = [reply EXCEPT ![r] = <<"200", c>>]
  /\ asked' = [asked EXCEPT ![r] = None]
  /\ UNCHANGED saved

Store(p, c) ==
  /\ p \notin NoCache /\ c \in Images[p]
  /\ <<p, c>> \notin saved
  /\ saved' = saved \cup {<<p, c>>}
  /\ UNCHANGED <<asked, reply>>

\* The process dies and is started again.
Forget ==
  /\ asked' = [r \in Requests |-> None]
  /\ reply' = [r \in Requests |-> NoReply]
  /\ UNCHANGED saved

Next ==
  \/ \E r \in Requests : Refuse(r) \/ Answer(r) \/ \E p \in Providers : Ask(r, p)
  \/ \E p \in Providers : \E c \in Images[p] : Store(p, c)
  \/ Forget

Spec == Init /\ [][Next]_<<asked, reply, saved>>
=============================================================================
