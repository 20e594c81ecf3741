---------------------------- MODULE CacheContract ----------------------------
(***************************************************************************)
(* What the tile cache promises to those who use it: an answer is a miss,  *)
(* or the whole of an image that was saved for the very tile asked for.    *)
(* A miss is always allowed, a lost answer (the process dies) too.         *)
(***************************************************************************)
CONSTANTS
  Tiles, Images, Callers,
  None,   \* no question, no answer yet
  Miss    \* the answer  nil, false

VARIABLES
  saved,   \* the <<tile, image>> pairs Save was called with
  asked,   \* the tile each caller last asked for
  answer   \* what it was told

Init ==
  /\ saved = {}
  /\ asked = [c \in Callers |-> None]
  /\ answer = [c \in Callers |-> None]

Save(t, d) ==
  /\ saved' = saved \cup {<<t, d>>}
  /\ UNCHANGED <<asked, answer>>

Ask(c, t) ==
  /\ asked' = [asked EXCEPT ![c] = t]
  /\ answer' = [answer EXCEPT ![c] = None]
  /\ UNCHANGED saved

Tell(c) ==
  /\ asked[c] # None /\ answer[c] = None
  /\ \/ answer' = [answer EXCEPT ![c] = Miss]
     \/ \E d \in Images : /\ <<asked[c], d>> \in saved
                          /\ answer' = [answer EXCEPT ![c] = d]
  /\ UNCHANGED <<saved, asked>>

Forget ==
  /\ asked' = [c \in Callers |-> None]
  /\ answer' = [c \in Callers |-> None]
  /\ UNCHANGED saved

Next ==
  \/ \E t \in Tiles, d \in Images : Save(t, d)
  \/ \E c \in Callers, t \in Tiles : Ask(c, t)
  \/ \E c \in Callers : Tell(c)
  \/ Forget

Spec == Init /\ [][Next]_<<saved, asked, answer>>
=============================================================================
