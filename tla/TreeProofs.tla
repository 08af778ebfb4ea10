------------------------------ MODULE TreeProofs ------------------------------
(***************************************************************************)
(* Theorems about Tree, for any number of children, directories and names. *)
(***************************************************************************)
EXTENDS Tree, TLAPS

(* What is at "tmp" was taken there by a child that has not moved on: so   *)
(* that when there is none, nothing is.                                    *)
TmpHeld == at[Tmp] # NoDir => \E c \in Children : proc[c] = "moved"

(* Two children on their way back have different names to go to: the first *)
(* rename() takes the name away that the second would need.                *)
SrcsDiffer ==
  \A c, e \in Children :
    proc[c] = "moved" /\ proc[e] = "moved" /\ src[c] = src[e] => c = e

(* No child runs before it is forked, and none when all are reaped.        *)
ParentInv ==
  /\ \A c \in Children : c >= x => proc[c] = "none"
  /\ parent = "done" => \A c \in Children : proc[c] \in {"none", "reaped"}

Inv == TypeOK /\ WayBackFree /\ TmpHeld /\ SrcsDiffer /\ ParentInv

-----------------------------------------------------------------------------
LEMMA SlotsDistinct ==
  /\ Tmp \notin Dirs /\ NoDir \notin Dirs /\ NoDir # Tmp
  /\ \A path \in Draws : path[1] \in Dirs /\ path[2] \in Names
BY TreeAssumption DEF Tmp, NoDir, Draws

LEMMA Initial == Init => Inv
<1> SUFFICES ASSUME Init PROVE Inv
  OBVIOUS
<1> USE DEF Init
<1>1. TypeOK
  <2>1. at \in [Slots -> Dirs \cup {NoDir}]
    BY DEF Slots
  <2>2. files \in [Dirs -> SUBSET Names]
    OBVIOUS
  <2>3. x \in 0 .. NChildren
    BY TreeAssumption
  <2> QED
    BY <2>1, <2>2, <2>3 DEF TypeOK
<1>2. at[Tmp] = NoDir
  BY DEF Slots
<1>3. \A c \in Children : proc[c] = "none"
  OBVIOUS
<1> QED
  BY <1>1, <1>2, <1>3 DEF Inv, WayBackFree, TmpHeld, SrcsDiffer, ParentInv

(* Steps that change neither directories nor who is between two renames.   *)
LEMMA Elsewhere ==
  ASSUME Inv, UNCHANGED <<at, src>>, TypeOK', ParentInv',
         \A c \in Children : proc[c] = "moved" <=> proc'[c] = "moved"
  PROVE  Inv'
BY DEF Inv, WayBackFree, TmpHeld, SrcsDiffer

LEMMA ParentStep ==
  ASSUME Inv, Fork \/ Forked \/ Wait
  PROVE  Inv' /\ UNCHANGED at
<1>1. CASE Fork
  <2>1. x \in Children /\ proc[x] = "none" /\ x + 1 \in 0 .. NChildren
    BY <1>1, TreeAssumption DEF Fork, Inv, ParentInv, TypeOK, Children
  <2>2. /\ proc' \in [Children -> {"none", "run", "moved", "zombie", "reaped"}]
        /\ \A c \in Children : c # x => proc'[c] = proc[c]
        /\ proc'[x] \in {"none", "run"}
    BY <1>1, <2>1 DEF Fork, Inv, TypeOK
  <2>3. TypeOK'
    BY <1>1, <2>1, <2>2 DEF Fork, Inv, TypeOK
  <2>4. ParentInv'
    <3>1. ASSUME NEW c \in Children, c >= x' PROVE proc'[c] = "none"
      <4>1. c # x /\ c >= x
        BY <1>1, <3>1, <2>1 DEF Fork, Children
      <4> QED
        BY <4>1, <2>2 DEF Inv, ParentInv
    <3>2. parent' # "done"
      BY <1>1 DEF Fork
    <3> QED
      BY <3>1, <3>2 DEF ParentInv
  <2> QED
    BY <1>1, <2>1, <2>2, <2>3, <2>4, Elsewhere DEF Fork
<1>2. CASE Forked
  <2>1. TypeOK' /\ ParentInv'
    BY <1>2 DEF Forked, Inv, TypeOK, ParentInv
  <2> QED
    BY <1>2, <2>1, Elsewhere DEF Forked
<1>3. CASE Wait
  <2>1. CASE \E c \in Children :
               /\ proc[c] = "zombie"
               /\ proc' = [proc EXCEPT ![c] = "reaped"]
               /\ UNCHANGED parent
    <3>1. PICK e \in Children :
            /\ proc[e] = "zombie"
            /\ proc' = [proc EXCEPT ![e] = "reaped"]
            /\ UNCHANGED parent
      BY <2>1
    <3>2. UNCHANGED <<at, files, src, x>>
      BY <1>3 DEF Wait
    <3>3. TypeOK'
      BY <3>1, <3>2 DEF Inv, TypeOK
    <3>4. /\ proc'[e] = "reaped"
          /\ \A c \in Children : c # e => proc'[c] = proc[c]
      BY <3>1 DEF Inv, TypeOK
    <3>5. ParentInv'
      BY <3>1, <3>2, <3>4 DEF Inv, ParentInv
    <3> QED
      BY <3>1, <3>2, <3>3, <3>4, <3>5, Elsewhere
  <2>2. CASE /\ \A c \in Children : proc[c] \in {"none", "reaped"}
             /\ parent' = "done"
             /\ UNCHANGED proc
    <3>1. UNCHANGED <<at, files, src, x>>
      BY <1>3 DEF Wait
    <3>2. TypeOK' /\ ParentInv'
      BY <2>2, <3>1 DEF Inv, TypeOK, ParentInv
    <3> QED
      BY <2>2, <3>1, <3>2, Elsewhere
  <2> QED
    BY <1>3, <2>1, <2>2 DEF Wait
<1> QED
  BY <1>1, <1>2, <1>3

(* The operations on entries change files only.                            *)
LEMMA EntryStep ==
  ASSUME Inv, NEW c \in Children, Create(c) \/ Remove(c) \/ Link(c) \/ Rename(c)
  PROVE  Inv' /\ UNCHANGED <<at, proc>>
<1>1. UNCHANGED <<at, proc, src, x, parent>>
  BY DEF Create, Remove, Link, Rename
<1>2. files' \in [Dirs -> SUBSET Names]
  <2>1. CASE Create(c)
    <3>1. PICK path \in Draws :
            /\ at[path[1]] # NoDir
            /\ files' = [files EXCEPT ![at[path[1]]] = @ \cup {path[2]}]
      BY <2>1 DEF Create
    <3>2. at[path[1]] \in Dirs /\ path[2] \in Names
      BY <3>1, SlotsDistinct DEF Inv, TypeOK, Slots
    <3> QED
      BY <3>1, <3>2 DEF Inv, TypeOK
  <2>2. CASE Remove(c)
    <3>1. PICK path \in Draws :
            /\ at[path[1]] # NoDir
            /\ files' = [files EXCEPT ![at[path[1]]] = @ \ {path[2]}]
      BY <2>2 DEF Remove, Exists
    <3>2. at[path[1]] \in Dirs /\ path[2] \in Names
      BY <3>1, SlotsDistinct DEF Inv, TypeOK, Slots
    <3> QED
      BY <3>1, <3>2 DEF Inv, TypeOK
  <2>3. CASE Link(c)
    <3>1. PICK new \in Draws :
            /\ at[new[1]] # NoDir
            /\ files' = [files EXCEPT ![at[new[1]]] = @ \cup {new[2]}]
      BY <2>3 DEF Link
    <3>2. at[new[1]] \in Dirs /\ new[2] \in Names
      BY <3>1, SlotsDistinct DEF Inv, TypeOK, Slots
    <3> QED
      BY <3>1, <3>2 DEF Inv, TypeOK
  <2>4. CASE Rename(c)
    <3>1. PICK old, new \in Draws :
            files' = [d \in Dirs |->
              (files[d] \ (IF d = at[old[1]] THEN {old[2]} ELSE {}))
                \cup (IF d = at[new[1]] THEN {new[2]} ELSE {})]
      BY <2>4 DEF Rename
    <3>2. new[2] \in Names
      BY SlotsDistinct
    <3> QED
      BY <3>1, <3>2 DEF Inv, TypeOK
  <2> QED
    BY <2>1, <2>2, <2>3, <2>4
<1>3. TypeOK' /\ ParentInv'
  BY <1>1, <1>2 DEF Inv, TypeOK, ParentInv
<1> QED
  BY <1>1, <1>3, Elsewhere

LEMMA EndStep ==
  ASSUME Inv, NEW c \in Children, End(c)
  PROVE  Inv' /\ UNCHANGED at
<1>1. /\ proc'[c] = "zombie" /\ proc[c] = "run"
      /\ \A e \in Children : e # c => proc'[e] = proc[e]
  BY DEF End, Inv, TypeOK
<1>2. TypeOK'
  BY DEF End, Inv, TypeOK
<1>3. ParentInv'
  BY <1>1 DEF End, Inv, ParentInv
<1> QED
  BY <1>1, <1>2, <1>3, Elsewhere DEF End

(* The first rename(): its name was not yet taken, nor was it "tmp".       *)
LEMMA MoveAwayStep ==
  ASSUME Inv, NEW c \in Children, MoveAway(c)
  PROVE  /\ Inv'
         /\ \A d \in Lost' \ Lost : files[d] = {}
         /\ Lost' # Lost => \E e \in Children : proc[e] = "moved" /\ proc'[e] = "moved"
<1>1. PICK from \in Dirs :
        /\ Renames(from, Tmp)
        /\ at' = Renamed(from, Tmp)
        /\ src' = [src EXCEPT ![c] = from]
  BY SlotsDistinct DEF MoveAway
<1>2. /\ proc[c] = "run" /\ proc'[c] = "moved"
      /\ \A e \in Children : e # c => proc'[e] = proc[e] /\ src'[e] = src[e]
      /\ src'[c] = from
  BY <1>1 DEF MoveAway, Inv, TypeOK
<1>3. /\ at[from] \in Dirs
      /\ at'[Tmp] = at[from] /\ at'[from] = NoDir
      /\ \A s \in Slots \ {Tmp, from} : at'[s] = at[s]
      /\ at' \in [Slots -> Dirs \cup {NoDir}]
  BY <1>1, SlotsDistinct DEF Renames, Renamed, Inv, TypeOK, Slots
<1>4. TypeOK'
  BY <1>1, <1>3 DEF MoveAway, Inv, TypeOK
<1>5. \A e \in Children : proc[e] = "moved" =>
        src[e] \in Dirs \ {from} /\ at[src[e]] = NoDir
  BY <1>3, SlotsDistinct DEF Inv, WayBackFree, TypeOK
<1>6. WayBackFree'
  <2> SUFFICES ASSUME NEW e \in Children, proc'[e] = "moved"
               PROVE  at'[src'[e]] = NoDir
    BY DEF WayBackFree
  <2>1. CASE e = c
    BY <2>1, <1>2, <1>3
  <2>2. CASE e # c
    BY <2>2, <1>2, <1>3, <1>5, SlotsDistinct DEF Slots
  <2> QED
    BY <2>1, <2>2
<1>7. TmpHeld'
  BY <1>2 DEF TmpHeld
<1>8. SrcsDiffer'
  <2> SUFFICES ASSUME NEW e \in Children, NEW f \in Children,
                      proc'[e] = "moved", proc'[f] = "moved", src'[e] = src'[f]
               PROVE  e = f
    BY DEF SrcsDiffer
  <2>1. CASE e # c /\ f # c
    BY <2>1, <1>2 DEF Inv, SrcsDiffer
  <2>2. CASE e = c \/ f = c
    BY <2>2, <1>2, <1>5
  <2> QED
    BY <2>1, <2>2
<1>9. ParentInv'
  BY <1>2 DEF MoveAway, Inv, ParentInv
<1>10. \A d \in Lost' \ Lost : files[d] = {} /\ at[Tmp] = d
  <2> SUFFICES ASSUME NEW d \in Dirs, d \in Lost', d \notin Lost
               PROVE  files[d] = {} /\ at[Tmp] = d
    BY DEF Lost
  <2>1. PICK s \in Slots : at[s] = d
    BY DEF Lost
  <2>2. at'[s] # d /\ at'[Tmp] # d
    BY SlotsDistinct DEF Lost, Slots
  <2>3. s = Tmp
    BY <2>1, <2>2, <1>3
  <2>4. at[Tmp] # NoDir
    BY <2>1, <2>3, SlotsDistinct
  <2> QED
    BY <2>1, <2>3, <2>4, <1>1 DEF Renames
<1>11. Lost \subseteq Lost'
  <2> SUFFICES ASSUME NEW d \in Dirs, \A s \in Slots : at[s] # d,
                      NEW s \in Slots
               PROVE  at'[s] # d
    BY DEF Lost
  <2>1. at[s] # d /\ at[from] # d /\ NoDir # d
    BY SlotsDistinct DEF Slots
  <2>2. CASE s = Tmp
    BY <2>1, <2>2, <1>3
  <2>3. CASE s = from
    BY <2>1, <2>3, <1>3
  <2>4. CASE s \notin {Tmp, from}
    BY <2>1, <2>4, <1>3
  <2> QED
    BY <2>2, <2>3, <2>4
<1>12. Lost' # Lost => \E e \in Children : proc[e] = "moved" /\ proc'[e] = "moved"
  <2> SUFFICES ASSUME Lost' # Lost
               PROVE  \E e \in Children : proc[e] = "moved" /\ proc'[e] = "moved"
    OBVIOUS
  <2>1. PICK d : d \in Lost' /\ d \notin Lost
    BY <1>11
  <2>2. at[Tmp] # NoDir
    BY <2>1, <1>10, SlotsDistinct DEF Lost
  <2>3. PICK e \in Children : proc[e] = "moved"
    BY <2>2 DEF Inv, TmpHeld
  <2>4. e # c
    BY <2>3, <1>2
  <2> QED
    BY <2>3, <2>4, <1>2
<1> QED
  BY <1>4, <1>6, <1>7, <1>8, <1>9, <1>10, <1>12 DEF Inv

(* The second one: it finds its name free.                                 *)
LEMMA MoveBackStep ==
  ASSUME Inv, NEW c \in Children, MoveBack(c)
  PROVE  Inv' /\ Lost' = Lost
<1> DEFINE to == src[c]
<1>1. /\ proc[c] = "moved" /\ proc'[c] = "run"
      /\ \A e \in Children : e # c => proc'[e] = proc[e]
      /\ UNCHANGED <<files, src, x, parent>>
      /\ at' = IF Renames(Tmp, to) THEN Renamed(Tmp, to) ELSE at
  BY DEF MoveBack, Inv, TypeOK
<1>2. to \in Dirs /\ to # Tmp /\ at[to] = NoDir
  BY <1>1, SlotsDistinct DEF Inv, WayBackFree, TypeOK
<1> HIDE DEF to
<1>3. /\ at' \in [Slots -> Dirs \cup {NoDir}]
      /\ at'[to] = at[Tmp] /\ at'[Tmp] = NoDir
      /\ \A s \in Slots \ {Tmp, to} : at'[s] = at[s]
  <2>1. at \in [Slots -> Dirs \cup {NoDir}] /\ {to, Tmp} \subseteq Slots
    BY <1>2 DEF Inv, TypeOK, Slots
  <2>2. CASE at[Tmp] # NoDir
    <3>1. at' = [at EXCEPT ![to] = at[Tmp], ![Tmp] = NoDir]
      BY <2>2, <1>1, <1>2 DEF Renames, Renamed
    <3> QED
      BY <3>1, <2>1, <1>2
  <2>3. CASE at[Tmp] = NoDir
    <3>1. at' = at
      BY <2>3, <1>1 DEF Renames
    <3> QED
      BY <3>1, <2>1, <2>3, <1>2
  <2> QED
    BY <2>2, <2>3
<1>4. TypeOK'
  BY <1>1, <1>3 DEF MoveBack, Inv, TypeOK
<1>5. WayBackFree'
  <2> SUFFICES ASSUME NEW e \in Children, proc'[e] = "moved"
               PROVE  at'[src[e]] = NoDir
    BY <1>1 DEF WayBackFree
  <2>1. e # c /\ proc[e] = "moved"
    BY <1>1
  <2>2. src[e] # to /\ src[e] \in Dirs /\ at[src[e]] = NoDir
    BY <2>1, <1>1 DEF Inv, SrcsDiffer, WayBackFree, TypeOK, to
  <2> QED
    BY <2>2, <1>3, SlotsDistinct DEF Slots
<1>6. TmpHeld' /\ SrcsDiffer' /\ ParentInv'
  BY <1>1, <1>3 DEF Inv, TmpHeld, SrcsDiffer, ParentInv
<1>7. Lost' = Lost
  <2>1. ASSUME NEW d \in Dirs
        PROVE  (\A s \in Slots : at'[s] # d) <=> (\A s \in Slots : at[s] # d)
    BY <1>2, <1>3, SlotsDistinct DEF Slots
  <2> QED
    BY <2>1 DEF Lost
<1> QED
  BY <1>4, <1>5, <1>6, <1>7 DEF Inv

-----------------------------------------------------------------------------
(* Every step keeps the invariant and loses directories only as            *)
(* LostOnlyByRace says.                                                    *)
LEMMA Step ==
  ASSUME Inv, [Next]_vars
  PROVE  /\ Inv'
         /\ \A d \in Lost' \ Lost : files[d] = {}
         /\ Lost' # Lost => \E c \in Children : proc[c] = "moved" /\ proc'[c] = "moved"
<1>0. UNCHANGED at => Lost' = Lost
  BY DEF Lost
<1>1. CASE Fork \/ Forked \/ Wait
  BY <1>0, <1>1, ParentStep
<1>2. ASSUME NEW c \in Children, Create(c) \/ Remove(c) \/ Link(c) \/ Rename(c)
      PROVE  Inv' /\ Lost' = Lost
  BY <1>0, <1>2, EntryStep
<1>3. ASSUME NEW c \in Children, MoveAway(c)
      PROVE  /\ Inv'
             /\ \A d \in Lost' \ Lost : files[d] = {}
             /\ Lost' # Lost => \E e \in Children : proc[e] = "moved" /\ proc'[e] = "moved"
  BY <1>3, MoveAwayStep
<1>4. ASSUME NEW c \in Children, MoveBack(c)
      PROVE  Inv' /\ Lost' = Lost
  BY <1>4, MoveBackStep
<1>5. ASSUME NEW c \in Children, End(c)
      PROVE  Inv' /\ Lost' = Lost
  BY <1>0, <1>5, EndStep
<1>6. CASE UNCHANGED vars
  <2>1. Inv'
    BY <1>6 DEF vars, Inv, TypeOK, WayBackFree, TmpHeld, SrcsDiffer, ParentInv
  <2> QED
    BY <1>0, <1>6, <2>1 DEF vars
<1>7. CASE Next
  BY <1>7, <1>1, <1>2, <1>3, <1>4, <1>5, <1>6 DEF Next, Child, Ended
<1> QED
  BY <1>6, <1>7

(* The five invariants together are inductive.                             *)
THEOREM Invariance == Spec => []Inv
<1>1. Init => Inv
  BY Initial
<1>2. Inv /\ [Next]_vars => Inv'
  BY Step
<1> QED
  BY <1>1, <1>2, PTL DEF Spec

(* The types of move.c's and the parent's variables.                       *)
THEOREM TypeCorrect == Spec => []TypeOK
<1>1. Inv => TypeOK
  BY DEF Inv
<1> QED
  BY <1>1, Invariance, PTL

(* The second rename() of special/move.c never replaces a directory.       *)
THEOREM NothingReplaced == Spec => []WayBackFree
<1>1. Inv => WayBackFree
  BY DEF Inv
<1> QED
  BY <1>1, Invariance, PTL

(* When the parent returns it has reaped all its children and nothing has  *)
(* been left at "tmp".                                                     *)
THEOREM ParentReturnsLast == Spec => []ParentLast
<1>1. Inv => ParentLast
  BY DEF Inv, ParentInv, TmpHeld, ParentLast
<1> QED
  BY <1>1, Invariance, PTL

(* A directory gets lost only while it is empty and two moves overlap.     *)
THEOREM LosesOnlyByRace == Spec => LostOnlyByRace
<1>1. Inv /\ [Next]_vars =>
        [/\ \A d \in Lost' \ Lost : files[d] = {}
         /\ Lost' # Lost =>
              \E c \in Children : proc[c] = "moved" /\ proc'[c] = "moved"]_vars
  BY Step
<1> QED
  BY <1>1, Invariance, PTL DEF Spec, LostOnlyByRace

(* While a directory is at "tmp" some child is between its two renames,    *)
(* and whichever child takes its second one clears "tmp": rename() cannot  *)
(* fail, since the name it moves to is free.  What is left of TmpComesFree *)
(* is that one of them gets a turn.                                        *)
THEOREM MoveBackClears ==
  Spec => /\ []TmpHeld
          /\ [][\A c \in Children : MoveBack(c) => at'[Tmp] = NoDir]_vars
<1>1. ASSUME Inv, NEW c \in Children, MoveBack(c) PROVE at'[Tmp] = NoDir
  <2>1. at[src[c]] = NoDir /\ src[c] \in Dirs /\ src[c] # Tmp
    BY <1>1, SlotsDistinct DEF Inv, TypeOK, WayBackFree, MoveBack
  <2>2. at \in [Slots -> Dirs \cup {NoDir}] /\ Tmp \in Slots
    BY <1>1 DEF Inv, TypeOK, Slots
  <2>3. CASE at[Tmp] = NoDir
    BY <1>1, <2>3 DEF MoveBack, Renames
  <2>4. CASE at[Tmp] # NoDir
    <3>1. at' = Renamed(Tmp, src[c])
      BY <1>1, <2>1, <2>4 DEF MoveBack, Renames
    <3>. QED  BY <2>1, <2>2, <3>1 DEF Renamed
  <2>. QED  BY <2>3, <2>4
<1>2. Inv => TmpHeld /\ [\A c \in Children : MoveBack(c) => at'[Tmp] = NoDir]_vars
  BY <1>1 DEF Inv
<1>. QED  BY <1>2, Invariance, PTL DEF Spec

=============================================================================
