------------------------------ MODULE RunIndex ------------------------------
(***************************************************************************)
(* What session.json promises: an index of the active run and of the runs  *)
(* that were started last, changed by one whole operation at a time, with  *)
(* no processes, no locks and no copies of it.  A read of it that fails    *)
(* makes the next operation start from an empty index.                     *)
(***************************************************************************)
EXTENDS Naturals, Sequences

CONSTANTS
  Runs,        \* run ids
  NoRun,       \* no active run
  MaxRecent    \* how many runs the index keeps

VARIABLES
  index,   \* [active, recent]
  unread   \* a read of it has failed, and its reader is about to write

indexVars == <<index, unread>>

Empty == [active |-> NoRun, recent |-> <<>>]

(* The runs that the index names. *)
Named(x) == {x.active} \cup {x.recent[i] : i \in DOMAIN x.recent}

(* Mutant of Registered: the recent runs are not cut. *)
RegisteredUncut(x, r) == [active |-> r, recent |-> <<r>> \o x.recent]

(* A run that starts is the active one and, unless it is there already,    *)
(* the first of the recent ones.                                           *)
Registered(x, r) ==
  [active |-> r,
   recent |-> IF \E i \in DOMAIN x.recent : x.recent[i] = r THEN x.recent
              ELSE LET longer == <<r>> \o x.recent
                   IN SubSeq(longer, 1, IF Len(longer) < MaxRecent
                                        THEN Len(longer) ELSE MaxRecent)]

(* Mutant of Pruned: the recent runs are not looked at. *)
PrunedActive(x, S) == IF x.active \in S THEN [x EXCEPT !.active = NoRun] ELSE x

(* The list s without the runs of S, built from its front as the list       *)
(* comprehension does.                                                     *)
Without(s, S) ==
  LET kept[i \in 0..Len(s)] ==
        IF i = 0 THEN <<>>
        ELSE IF s[i] \in S THEN kept[i - 1] ELSE Append(kept[i - 1], s[i])
  IN kept[Len(s)]

(* Runs whose documents were collected are forgotten. *)
Pruned(x, S) ==
  [active |-> IF x.active \in S THEN NoRun ELSE x.active,
   recent |-> Without(x.recent, S)]

(* A run that ends is no longer the active one. *)
Cleared(x, r) == IF x.active = r THEN [x EXCEPT !.active = NoRun] ELSE x

IndexInit == index = Empty /\ unread = FALSE

(* What the next operation starts from. *)
Base == IF unread THEN Empty ELSE index

Operation ==
  /\ \/ \E r \in Runs : \/ index' = Registered(Base, r)
                        \/ index' = Cleared(Base, r)
     \/ \E S \in SUBSET Runs : index' = Pruned(Base, S)
  /\ unread' = FALSE

Misread == ~ unread /\ unread' = TRUE /\ UNCHANGED index

(* The reader of a failed read does not write after all. *)
GiveUp == unread /\ unread' = FALSE /\ UNCHANGED index

IndexNext == Operation \/ Misread \/ GiveUp

IndexSpec == IndexInit /\ [][IndexNext]_indexVars

=============================================================================
