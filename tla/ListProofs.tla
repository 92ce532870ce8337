----------------------------- MODULE ListProofs -----------------------------
(***************************************************************************)
(* Proofs about the two parts of suspend that keep their objects on linked *)
(* lists: the walks along dpm_list, and active_wake_locks[].               *)
(*                                                                         *)
(* The device walks, for every tree of devices and any number of suspends, *)
(* failures and devices that come and go.  What a walk has done to a       *)
(* device can be read off where it is linked: the devices on the list of   *)
(* the stack are done, those on dpm_list are still to do, and the one      *)
(* whose callback runs is in between, removed or not (Staged).  That alone *)
(* pairs the callbacks.  That children are off before their parents needs  *)
(* the order of the two lists as well (OrderInv).  dpm_complete breaks it  *)
(* for the devices registered behind its back; they are taken as roots of  *)
(* their own (Up), and the order of all the others is kept.                *)
(*                                                                         *)
(* The wake locks, for every set of locks and of timeouts.  The flags of a *)
(* lock say on which list it is (Fits) and whether the time for which it   *)
(* prevents suspend is charged (Charged).  What has_wake_lock_locked finds *)
(* is proved by induction along the list (WalkFinds); with it every step   *)
(* on the lists is a step of WakeLock, which has sets in their place.      *)
(***************************************************************************)
EXTENDS DevicePM, WakeLockList, ListFacts

Todo == ToSet(list)
Done == ToSet(local)

(* Each device is linked once, and the walks are between their callbacks   *)
(* or over where they say they are.                                        *)
Linked ==
  /\ list \in Seq(Device) /\ IsInjective(list)
  /\ local \in Seq(Device) /\ IsInjective(local)
  /\ Todo \cap Done = {}
  /\ cur \notin Done
  /\ phase \in {"idle", "noirq", "asleep"} => cur = NoDevice /\ local = << >>
  /\ phase \in {"prepare", "suspend"} => started

(* d has the status st, and its callbacks have got to c. *)
At(d, st, c) == status[d] = st /\ cb[d] = c

Staged ==
  /\ phase \in {"idle", "prepare"} => \A d \in Todo \ {cur} : At(d, ON, "on")
  /\ phase = "prepare" => /\ \A d \in Done : At(d, SUSPENDING, "prepared")
                          /\ cur # NoDevice => At(cur, PREPARING, "on")
  /\ phase = "suspend" => /\ \A d \in Todo : At(d, SUSPENDING, "prepared")
                          /\ \A d \in Done : At(d, OFF, "suspended")
                          /\ cur # NoDevice => At(cur, SUSPENDING, "prepared")
  /\ phase = "noirq" => \A d \in Todo : At(d, OFF, "suspended")
  /\ phase = "asleep" => \A d \in Todo : At(d, OFF_IRQ, "late")
  /\ phase = "resume" =>
       /\ \A d \in Todo \ {cur} :
            At(d, ON, "on") \/ At(d, SUSPENDING, "prepared") \/ At(d, OFF, "suspended")
       /\ \A d \in Done : At(d, ON, "on") \/ At(d, RESUMING, "prepared")
       /\ cur # NoDevice => At(cur, RESUMING, "prepared")
  /\ phase = "complete" =>
       /\ \A d \in Todo : At(d, ON, "on") \/ At(d, RESUMING, "prepared")
       /\ \A d \in Done : At(d, ON, "on")
       /\ cur # NoDevice => At(cur, ON, "on")

PMInv == TypeOK /\ Linked /\ Staged /\ CallbacksPaired

(* The parent of a device, unless it was registered behind the back of     *)
(* dpm_complete.                                                           *)
Up == [d \in Device |-> IF d \in astray THEN NoDevice ELSE Parent[d]]

(* A list on which no child comes before its parent, u. *)
Sorted(u, s) == \A i, j \in 1..Len(s) : u[s[i]] = s[j] => j < i

(* The walks that begin at the head leave the devices done in front of     *)
(* those to do, the others behind them.                                    *)
Forward == phase \in {"prepare", "resume"}
Backward == phase \in {"suspend", "complete"}

(* No device is left without its parent. *)
Rooted == \A d \in Registered : Up[d] \in Registered \cup {NoDevice}

(* A device is off only while its children are. *)
UpFirst ==
  \A d \in Registered : Up[d] \in Registered /\ status[Up[d]] >= OFF => status[d] >= OFF

OrderInv ==
  /\ Rooted
  /\ Sorted(Up, list) /\ Sorted(Up, local)
  /\ Forward => \A d \in Done : Up[d] \notin Todo
  /\ Backward => \A d \in Todo : Up[d] \notin Done
  /\ Forward /\ cur \in Todo => Up[cur] \notin Todo
  /\ Backward /\ cur \in Todo => \A d \in Todo : Up[d] # cur
  /\ UpFirst
-----------------------------------------------------------------------------
(***************************************************************************)
(* dpm_list and the lists of the walks as sequences.                       *)
(***************************************************************************)
(* The pairs of devices that may follow each other on a list. *)
NotParent(u) == {p \in Device \X Device : u[p[1]] # p[2]}

(* Sorted is an order of the list. *)
LEMMA SortedIs ==
  ASSUME NEW u, NEW s \in Seq(Device)
  PROVE  Sorted(u, s) <=> Ordered(s, NotParent(u))
<1>1. Len(s) \in Nat /\ \A i \in 1..Len(s) : s[i] \in Device
  BY SetOfSeq
<1>2. \A i, j \in 1..Len(s) : <<s[i], s[j]>> \in NotParent(u) <=> u[s[i]] # s[j]
  BY <1>1 DEF NotParent
<1>3. Ordered(s, NotParent(u)) <=> \A i, j \in 1..Len(s) : i <= j => u[s[i]] # s[j]
  BY <1>2 DEF Ordered
<1>4. \A i, j \in 1..Len(s) : j < i <=> ~(i <= j)
  BY <1>1
<1> QED BY <1>3, <1>4 DEF Sorted

(* list_del takes one device out and keeps the order of the others. *)
LEMMA DelList ==
  ASSUME NEW u, NEW s \in Seq(Device), IsInjective(s), NEW d
  PROVE  /\ list_del(s, d) \in Seq(Device) /\ IsInjective(list_del(s, d))
         /\ ToSet(list_del(s, d)) = ToSet(s) \ {d}
         /\ Sorted(u, s) => Sorted(u, list_del(s, d))
BY DelAny, SortedIs

(* list_splice of two lists that share no device. *)
LEMMA JoinLists ==
  ASSUME NEW u, NEW a \in Seq(Device), IsInjective(a), NEW b \in Seq(Device), IsInjective(b),
         ToSet(a) \cap ToSet(b) = {}
  PROVE  /\ a \o b \in Seq(Device) /\ IsInjective(a \o b)
         /\ ToSet(a \o b) = ToSet(a) \cup ToSet(b)
         /\ Sorted(u, a) /\ Sorted(u, b) /\ (\A x \in ToSet(a) : u[x] \notin ToSet(b))
              => Sorted(u, a \o b)
<1> DEFINE Apart == \A x \in ToSet(a), y \in ToSet(b) : <<x, y>> \in NotParent(u)
<1>1. /\ a \o b \in Seq(Device) /\ IsInjective(a \o b)
      /\ ToSet(a \o b) = ToSet(a) \cup ToSet(b)
      /\ Ordered(a, NotParent(u)) /\ Ordered(b, NotParent(u)) /\ Apart
           => Ordered(a \o b, NotParent(u))
  BY JoinAny
<1>2. ToSet(a) \subseteq Device /\ ToSet(b) \subseteq Device
  BY SetOfSeq
<1>3. (\A x \in ToSet(a) : u[x] \notin ToSet(b)) => Apart
  BY <1>2 DEF NotParent
<1> HIDE DEF Apart
<1> QED BY <1>1, <1>3, SortedIs

(* A list of one device, as list_move puts it in front or behind. *)
LEMMA OneDevice ==
  ASSUME NEW u, NEW d \in Device
  PROVE  /\ <<d>> \in Seq(Device) /\ IsInjective(<<d>>) /\ ToSet(<<d>>) = {d}
         /\ u[d] # d => Sorted(u, <<d>>)
<1>1. /\ <<d>> \in Seq(Device) /\ IsInjective(<<d>>) /\ ToSet(<<d>>) = {d}
      /\ <<d, d>> \in NotParent(u) => Ordered(<<d>>, NotParent(u))
  BY OneAny
<1>2. u[d] # d => <<d, d>> \in NotParent(u)
  BY DEF NotParent
<1> DEFINE t == <<d>>
<1> HIDE DEF t
<1> QED BY <1>1, <1>2, SortedIs DEF t

(* list_add_tail and list_add. *)
LEMMA AddDevice ==
  ASSUME NEW u, NEW s \in Seq(Device), IsInjective(s), NEW d \in Device, d \notin ToSet(s)
  PROVE  /\ Append(s, d) \in Seq(Device) /\ IsInjective(Append(s, d))
         /\ ToSet(Append(s, d)) = ToSet(s) \cup {d}
         /\ <<d>> \o s \in Seq(Device) /\ IsInjective(<<d>> \o s)
         /\ ToSet(<<d>> \o s) = ToSet(s) \cup {d}
         /\ Sorted(u, s) /\ (\A x \in ToSet(s) \cup {d} : u[x] # d) => Sorted(u, Append(s, d))
         /\ Sorted(u, s) /\ u[d] \notin ToSet(s) \cup {d} => Sorted(u, <<d>> \o s)
<1> DEFINE one == <<d>>
<1>1. /\ one \in Seq(Device) /\ IsInjective(one) /\ ToSet(one) = {d}
      /\ u[d] # d => Sorted(u, one)
  BY OneDevice
<1>2. Append(s, d) = s \o one
  OBVIOUS
<1> HIDE DEF one
<1>3. /\ s \o one \in Seq(Device) /\ IsInjective(s \o one)
      /\ ToSet(s \o one) = ToSet(s) \cup ToSet(one)
      /\ Sorted(u, s) /\ Sorted(u, one) /\ (\A x \in ToSet(s) : u[x] \notin ToSet(one))
           => Sorted(u, s \o one)
  BY <1>1, JoinLists
<1>4. /\ one \o s \in Seq(Device) /\ IsInjective(one \o s)
      /\ ToSet(one \o s) = ToSet(one) \cup ToSet(s)
      /\ Sorted(u, one) /\ Sorted(u, s) /\ (\A x \in ToSet(one) : u[x] \notin ToSet(s))
           => Sorted(u, one \o s)
  BY <1>1, JoinLists
<1> DEFINE ta == s \o one
           ha == one \o s
<1> HIDE DEF ta, ha
<1>5. /\ ta \in Seq(Device) /\ IsInjective(ta) /\ ToSet(ta) = ToSet(s) \cup {d}
      /\ Sorted(u, s) /\ (\A x \in ToSet(s) \cup {d} : u[x] # d) => Sorted(u, ta)
  BY <1>1, <1>3, Zenon DEF ta
<1>6. /\ ha \in Seq(Device) /\ IsInjective(ha) /\ ToSet(ha) = ToSet(s) \cup {d}
      /\ Sorted(u, s) /\ u[d] \notin ToSet(s) \cup {d} => Sorted(u, ha)
  <2>1. ToSet(ha) = ToSet(s) \cup {d}
    BY <1>1, <1>4 DEF ha
  <2> QED BY <1>1, <1>4, <2>1 DEF ha
<1> QED BY <1>2, <1>5, <1>6, Zenon DEF one, ta, ha

(* The ends of a list. *)
LEMMA ListEnds ==
  ASSUME NEW u, NEW s \in Seq(Device), s # << >>
  PROVE  /\ Head(s) \in ToSet(s) /\ Last(s) \in ToSet(s)
         /\ Sorted(u, s) => u[Head(s)] \notin ToSet(s)
         /\ Sorted(u, s) => \A x \in ToSet(s) : u[x] # Last(s)
<1>1. /\ Len(s) \in Nat /\ Len(s) >= 1 /\ ToSet(s) = {s[i] : i \in 1..Len(s)}
      /\ Head(s) = s[1] /\ Last(s) = s[Len(s)]
  BY SetOfSeq DEF Last
<1>2. 1 \in 1..Len(s) /\ Len(s) \in 1..Len(s)
  BY <1>1
<1>3. Sorted(u, s) => \A j \in 1..Len(s) : u[s[1]] # s[j]
  BY <1>1, <1>2 DEF Sorted
<1>4. Sorted(u, s) => \A i \in 1..Len(s) : u[s[i]] # s[Len(s)]
  BY <1>1, <1>2 DEF Sorted
<1> QED BY <1>1, <1>2, <1>3, <1>4
-----------------------------------------------------------------------------
(***************************************************************************)
(* What the steps of a walk do to the two lists.                           *)
(***************************************************************************)
NextListsOK ==
  /\ list' \in Seq(Device) /\ IsInjective(list')
  /\ local' \in Seq(Device) /\ IsInjective(local')
  /\ Todo' \cap Done' = {}

(* Both lists become one, in either order, and the other is empty. *)
Merged == Todo' = Todo \cup Done /\ Done' = {}

(* An empty list holds nobody, once, in order. *)
LEMMA NoneIn ==
  /\ ToSet(<< >>) = {} /\ << >> \in Seq(Device) /\ IsInjective(<< >>)
  /\ \A u : Sorted(u, << >>)
BY DEF ToSet, IsInjective, Sorted

(* A list that holds nobody is empty: the end of every walk. *)
LEMMA SetEmpty ==
  ASSUME NEW s \in Seq(Device), ToSet(s) = {}
  PROVE  s = << >>
<1>1. Len(s) \in Nat /\ \A i \in 1..Len(s) : s[i] \in ToSet(s)
  <2>1. Len(s) \in Nat /\ DOMAIN s = 1..Len(s)
    OBVIOUS
  <2> QED BY <2>1 DEF ToSet
<1>2. Len(s) = 0
  <2> SUFFICES ASSUME Len(s) >= 1 PROVE FALSE
    BY <1>1
  <2>1. 1 \in 1..Len(s)
    BY <1>1
  <2> QED BY <1>1, <2>1
<1> QED BY <1>2

(* A device goes from dpm_list to either end of the other list, if it is   *)
(* still there.                                                            *)
LEMMA Moved ==
  ASSUME Linked, NEW d \in Device, d \notin Done,
         list' = list_del(list, d),
         \/ local' = IF d \in Todo THEN Append(local, d) ELSE local
         \/ local' = IF d \in Todo THEN <<d>> \o local ELSE local
  PROVE  /\ NextListsOK
         /\ Todo' = Todo \ {d} /\ Done' = IF d \in Todo THEN Done \cup {d} ELSE Done
<1>1. /\ list \in Seq(Device) /\ IsInjective(list) /\ local \in Seq(Device) /\ IsInjective(local)
      /\ Todo \cap Done = {}
  BY DEF Linked
<1>2. list' \in Seq(Device) /\ IsInjective(list') /\ Todo' = Todo \ {d}
  BY <1>1, DelList DEF Todo
<1>3. CASE d \in Todo
  <2>1. /\ Append(local, d) \in Seq(Device) /\ IsInjective(Append(local, d))
        /\ ToSet(Append(local, d)) = ToSet(local) \cup {d}
        /\ <<d>> \o local \in Seq(Device) /\ IsInjective(<<d>> \o local)
        /\ ToSet(<<d>> \o local) = ToSet(local) \cup {d}
    BY <1>1, AddDevice DEF Done
  <2>2. local' = Append(local, d) \/ local' = <<d>> \o local
    BY <1>3
  <2>3. local' \in Seq(Device) /\ IsInjective(local') /\ ToSet(local') = ToSet(local) \cup {d}
    BY <2>1, <2>2, Zenon
  <2>4. Done' = Done \cup {d}
    BY <2>3 DEF Done
  <2> QED BY <1>1, <1>2, <1>3, <2>3, <2>4 DEF NextListsOK
<1>4. CASE d \notin Todo
  <2>1. local' = local
    BY <1>4
  <2>2. Done' = Done
    BY <2>1 DEF Done
  <2> QED BY <1>1, <1>2, <1>4, <2>1, <2>2 DEF NextListsOK
<1> QED BY <1>3, <1>4

(* A walk is over: its list is put back, in front of or behind what is     *)
(* left of dpm_list.                                                       *)
LEMMA Spliced ==
  ASSUME Linked, local' = << >>,
         \/ list' = local \o list
         \/ list' = list \o local
         \/ list = << >> /\ list' = local
  PROVE  NextListsOK /\ Merged
<1>1. /\ list \in Seq(Device) /\ IsInjective(list) /\ local \in Seq(Device) /\ IsInjective(local)
      /\ Todo \cap Done = {}
  BY DEF Linked
<1>2. Done' = {} /\ local' \in Seq(Device) /\ IsInjective(local')
  BY NoneIn DEF Done
<1>3. /\ local \o list \in Seq(Device) /\ IsInjective(local \o list)
      /\ ToSet(local \o list) = ToSet(local) \cup ToSet(list)
  BY <1>1, JoinLists DEF Todo, Done
<1>4. /\ list \o local \in Seq(Device) /\ IsInjective(list \o local)
      /\ ToSet(list \o local) = ToSet(list) \cup ToSet(local)
  BY <1>1, JoinLists DEF Todo, Done
<1>5. list = << >> => ToSet(list) = {}
  BY NoneIn
<1>6. list' \in Seq(Device) /\ IsInjective(list') /\ ToSet(list') = ToSet(list) \cup ToSet(local)
  <2>1. CASE list' = local \o list
    <3>1. ToSet(list') = ToSet(local) \cup ToSet(list)
      BY <1>3, <2>1, Zenon
    <3>2. list' \in Seq(Device) /\ IsInjective(list')
      BY <1>3, <2>1, Zenon
    <3> QED BY <3>1, <3>2
  <2>2. CASE list' = list \o local
    BY <1>4, <2>2, Zenon
  <2>3. CASE list = << >> /\ list' = local
    <3>1. ToSet(list) = {} /\ list' = local
      BY <1>5, <2>3
    <3> QED BY <1>1, <3>1
  <2> QED BY <2>1, <2>2, <2>3
<1> QED BY <1>2, <1>6 DEF NextListsOK, Merged, Todo, Done
-----------------------------------------------------------------------------
(***************************************************************************)
(* One lemma per walk: each of its steps keeps PMInv.                      *)
(***************************************************************************)
LEMMA PreparePairs ==
  ASSUME PMInv,
         PrepareCall \/ PrepareOk \/ (\E again \in BOOLEAN : PrepareFail(again)) \/ PrepareDone
  PROVE  PMInv'
<1>0. /\ TypeOK /\ Linked /\ Staged /\ CallbacksPaired /\ NoDevice \notin Device
      /\ list \in Seq(Device) /\ Todo \subseteq Device /\ Done \subseteq Device
      /\ phase = "prepare"
  <2>1. list \in Seq(Device) /\ local \in Seq(Device)
    BY DEF PMInv, Linked
  <2>2. Todo \subseteq Device /\ Done \subseteq Device
    BY <2>1, SetOfSeq DEF Todo, Done
  <2> QED BY <2>1, <2>2, DeviceAssumption
      DEF PMInv, PrepareCall, PrepareOk, PrepareFail, PrepareDone
<1>1. CASE PrepareCall
  <2>1. Head(list) \in Todo
    BY <1>0, <1>1, ListEnds DEF PrepareCall, Todo
  <2>2. Todo' = Todo /\ Done' = Done
    BY <1>1 DEF PrepareCall, Todo, Done
  <2>3. TypeOK' /\ CallbacksPaired'
    BY <1>0, <1>1, <2>1 DEF PrepareCall, TypeOK, CallbacksPaired, ON, PREPARING, OFF_IRQ
  <2>4. Linked'
    BY <1>0, <1>1, <2>1, <2>2 DEF PrepareCall, Linked
  <2>5. Staged'
    BY <1>0, <1>1, <2>1, <2>2 DEF PrepareCall, TypeOK, Linked, Staged, At
  <2> QED BY <2>3, <2>4, <2>5 DEF PMInv
<1>2. CASE PrepareOk
  <2>1. /\ cur \in Device /\ cur \notin Done /\ cb[cur] = "on"
        /\ cur' = NoDevice /\ phase' = "prepare" /\ started' = started /\ cycle' = cycle /\ astray' = astray
        /\ status' = [status EXCEPT ![cur] = SUSPENDING]
        /\ cb' = [cb EXCEPT ![cur] = "prepared"]
    BY <1>0, <1>2 DEF PrepareOk, TypeOK, Linked, Staged, At, Called
  <2>2. /\ NextListsOK
        /\ Todo' = Todo \ {cur} /\ Done' = IF cur \in Todo THEN Done \cup {cur} ELSE Done
    <3>1. list' = list_del(list, cur) /\ local' = IF cur \in Todo THEN Append(local, cur) ELSE local
      BY <1>2 DEF PrepareOk, MoveTail, Todo
    <3> QED BY <1>0, <2>1, <3>1, Moved
  <2>3. TypeOK' /\ CallbacksPaired'
    BY <1>0, <2>1, <2>2 DEF TypeOK, NextListsOK, CallbacksPaired, ON, SUSPENDING, OFF_IRQ
  <2>4. Linked'
    BY <1>0, <2>1, <2>2 DEF Linked, NextListsOK, Done
  <2>5. Staged'
    BY <1>0, <2>1, <2>2 DEF TypeOK, Staged, At
  <2> QED BY <2>3, <2>4, <2>5 DEF PMInv
<1>3. ASSUME NEW again \in BOOLEAN, PrepareFail(again) PROVE PMInv'
  <2>1. /\ cur \in Device /\ cur \notin Done /\ cb[cur] = "on"
        /\ cur' = NoDevice /\ started' = started /\ cycle' = cycle /\ astray' = astray /\ cb' = cb
        /\ status' = [status EXCEPT ![cur] = ON]
    BY <1>0, <1>3 DEF PrepareFail, TypeOK, Linked, Staged, At
  <2>2. \/ (phase' = "prepare" /\ UNCHANGED <<list, local>>)
        \/ (phase' = "resume" /\ list' = local \o list /\ local' = << >>)
    BY <1>0, <1>3 DEF PrepareFail
  <2>3. CASE phase' = "prepare" /\ UNCHANGED <<list, local>>
    <3>1. Todo' = Todo /\ Done' = Done
      BY <2>3 DEF Todo, Done
    <3>2. TypeOK' /\ CallbacksPaired'
      BY <1>0, <2>1, <2>3 DEF TypeOK, CallbacksPaired, Phase, ON, OFF_IRQ
    <3>3. Linked'
      BY <1>0, <2>1, <2>3, <3>1 DEF Linked
    <3>4. Staged'
      BY <1>0, <2>1, <2>3, <3>1 DEF TypeOK, Staged, At
    <3> QED BY <3>2, <3>3, <3>4 DEF PMInv
  <2>4. CASE phase' = "resume" /\ list' = local \o list /\ local' = << >>
    <3>1. NextListsOK /\ Merged
      BY <1>0, <2>4, Spliced
    <3>2. TypeOK' /\ CallbacksPaired'
      BY <1>0, <2>1, <2>4, <3>1 DEF TypeOK, NextListsOK, CallbacksPaired, Phase, ON, OFF_IRQ
    <3>3. Linked'
      BY <1>0, <2>1, <2>4, <3>1 DEF Linked, NextListsOK, Merged
    <3>4. Staged'
      BY <1>0, <2>1, <2>4, <3>1 DEF TypeOK, Staged, At, Merged
    <3> QED BY <3>2, <3>3, <3>4 DEF PMInv
  <2> QED BY <2>2, <2>3, <2>4
<1>4. CASE PrepareDone
  <2>1. NextListsOK /\ Merged
    BY <1>0, <1>4, Spliced DEF PrepareDone
  <2>2. Todo = {}
    BY <1>4, NoneIn DEF PrepareDone, Todo
  <2>3. TypeOK' /\ CallbacksPaired'
    BY <1>0, <1>4, <2>1 DEF PrepareDone, TypeOK, NextListsOK, CallbacksPaired, Phase
  <2>4. Linked'
    BY <1>0, <1>4, <2>1 DEF PrepareDone, Linked, NextListsOK, Merged
  <2>5. Staged'
    BY <1>0, <1>4, <2>1, <2>2 DEF PrepareDone, TypeOK, Staged, At, Merged
  <2> QED BY <2>3, <2>4, <2>5 DEF PMInv
<1> QED BY <1>1, <1>2, <1>3, <1>4

(* dpm_suspend keeps the callbacks paired. *)
LEMMA SuspendPairs ==
  ASSUME PMInv, SuspendCall \/ SuspendOk \/ SuspendFail \/ SuspendDone
  PROVE  PMInv'
<1>0. /\ TypeOK /\ Linked /\ Staged /\ CallbacksPaired /\ NoDevice \notin Device
      /\ list \in Seq(Device) /\ Todo \subseteq Device /\ Done \subseteq Device
      /\ phase = "suspend"
  <2>1. list \in Seq(Device) /\ local \in Seq(Device)
    BY DEF PMInv, Linked
  <2>2. Todo \subseteq Device /\ Done \subseteq Device
    BY <2>1, SetOfSeq DEF Todo, Done
  <2> QED BY <2>1, <2>2, DeviceAssumption
      DEF PMInv, SuspendCall, SuspendOk, SuspendFail, SuspendDone
<1>1. CASE SuspendCall
  <2>1. Last(list) \in Todo
    BY <1>0, <1>1, ListEnds DEF SuspendCall, Todo
  <2>2. Todo' = Todo /\ Done' = Done
    BY <1>1 DEF SuspendCall, Todo, Done
  <2>3. TypeOK' /\ CallbacksPaired'
    BY <1>0, <1>1, <2>1 DEF SuspendCall, TypeOK, CallbacksPaired
  <2>4. Linked'
    BY <1>0, <1>1, <2>1, <2>2 DEF SuspendCall, Linked
  <2>5. Staged'
    BY <1>0, <1>1, <2>1, <2>2 DEF SuspendCall, Staged, At
  <2> QED BY <2>3, <2>4, <2>5 DEF PMInv
<1>2. CASE SuspendOk
  <2>1. /\ cur \in Device /\ cur \notin Done /\ cb[cur] = "prepared"
        /\ cur' = NoDevice /\ phase' = "suspend" /\ started' = started /\ cycle' = cycle /\ astray' = astray
        /\ status' = [status EXCEPT ![cur] = OFF]
        /\ cb' = [cb EXCEPT ![cur] = "suspended"]
    BY <1>0, <1>2 DEF SuspendOk, TypeOK, Linked, Staged, At, Called
  <2>2. /\ NextListsOK
        /\ Todo' = Todo \ {cur} /\ Done' = IF cur \in Todo THEN Done \cup {cur} ELSE Done
    <3>1. list' = list_del(list, cur) /\ local' = IF cur \in Todo THEN <<cur>> \o local ELSE local
      BY <1>2 DEF SuspendOk, MoveHead, Todo
    <3> QED BY <1>0, <2>1, <3>1, Moved
  <2>3. TypeOK' /\ CallbacksPaired'
    BY <1>0, <2>1, <2>2 DEF TypeOK, NextListsOK, CallbacksPaired, ON, OFF, OFF_IRQ
  <2>4. Linked'
    BY <1>0, <2>1, <2>2 DEF Linked, NextListsOK, Done
  <2>5. Staged'
    BY <1>0, <2>1, <2>2 DEF TypeOK, Staged, At
  <2> QED BY <2>3, <2>4, <2>5 DEF PMInv
<1>3. CASE SuspendFail
  <2>1. NextListsOK /\ Merged
    BY <1>0, <1>3, Spliced DEF SuspendFail
  <2>2. TypeOK' /\ CallbacksPaired'
    BY <1>0, <1>3, <2>1 DEF SuspendFail, TypeOK, NextListsOK, CallbacksPaired, Phase
  <2>3. Linked'
    BY <1>0, <1>3, <2>1 DEF SuspendFail, Linked, NextListsOK, Merged
  <2>4. Staged'
    BY <1>0, <1>3, <2>1 DEF SuspendFail, Staged, At, Merged
  <2> QED BY <2>2, <2>3, <2>4 DEF PMInv
<1>4. CASE SuspendDone
  <2>1. NextListsOK /\ Merged
    BY <1>0, <1>4, Spliced DEF SuspendDone
  <2>2. Todo = {}
    BY <1>4, NoneIn DEF SuspendDone, Todo
  <2>3. TypeOK' /\ CallbacksPaired'
    BY <1>0, <1>4, <2>1 DEF SuspendDone, TypeOK, NextListsOK, CallbacksPaired, Phase
  <2>4. Linked'
    BY <1>0, <1>4, <2>1 DEF SuspendDone, Linked, NextListsOK, Merged
  <2>5. Staged'
    BY <1>0, <1>4, <2>1, <2>2 DEF SuspendDone, Staged, At, Merged
  <2> QED BY <2>3, <2>4, <2>5 DEF PMInv
<1> QED BY <1>1, <1>2, <1>3, <1>4

(* Whatever device fails, the noirq walks leave all of them off, or all    *)
(* off with interrupts.                                                    *)
LEMMA SuspendNoirq ==
  ASSUME PMInv, NEW bad \in Device \cup {NoDevice}, dpm_suspend_noirq(bad)
  PROVE  /\ phase = "noirq" /\ UNCHANGED <<list, local, cur, cycle, astray>>
         /\ started' \in BOOLEAN
         /\ \/ /\ phase' = "asleep"
               /\ status' = [d \in Device |-> IF d \in Todo THEN OFF_IRQ ELSE status[d]]
               /\ cb' = [d \in Device |-> IF d \in Todo THEN "late" ELSE cb[d]]
            \/ phase' = "resume" /\ status' = status /\ cb' = cb
<1>0. /\ NoDevice \notin Device /\ list \in Seq(Device) /\ Len(list) \in Nat
      /\ Todo = {list[j] : j \in 1..Len(list)} /\ Todo \subseteq Device
      /\ DOMAIN list = 1..Len(list)
      /\ status = [d \in Device |-> status[d]] /\ cb = [d \in Device |-> cb[d]]
  <2>1. list \in Seq(Device)
    BY DEF PMInv, Linked
  <2>2. Len(list) \in Nat /\ Todo = {list[j] : j \in 1..Len(list)} /\ Todo \subseteq Device
    BY <2>1, SetOfSeq DEF Todo
  <2>3. status = [d \in Device |-> status[d]] /\ cb = [d \in Device |-> cb[d]]
    BY DEF PMInv, TypeOK
  <2> QED BY <2>1, <2>2, <2>3, DeviceAssumption
<1> DEFINE i == IF bad = NoDevice THEN 0 ELSE CHOOSE k \in DOMAIN list : list[k] = bad
           behind == {list[j] : j \in i + 1 .. Len(list)}
<1>1. /\ phase = "noirq" /\ UNCHANGED <<list, local, cur, cycle, astray>>
      /\ bad # NoDevice => bad \in Todo
      /\ status' = [d \in Device |-> IF d \in behind THEN IF i = 0 THEN OFF_IRQ ELSE OFF
                                     ELSE status[d]]
      /\ cb' = [d \in Device |-> IF d \notin behind THEN cb[d]
                                 ELSE IF cb[d] # "suspended" THEN "misused"
                                 ELSE IF i = 0 THEN "late" ELSE "suspended"]
      /\ phase' = IF i = 0 THEN "asleep" ELSE "resume"
      /\ started' = (started /\ i = 0)
  BY DEF dpm_suspend_noirq, Todo
<1>2. \A d \in Todo : status[d] = OFF /\ cb[d] = "suspended"
  BY <1>1 DEF PMInv, Staged, At
<1>3. started' \in BOOLEAN
  BY <1>1, Zenon
<1>4. CASE bad = NoDevice
  <2>1. i = 0
    BY <1>4
  <2>2. behind = Todo
    <3> HIDE DEF i
    <3>1. i + 1 = 1
      BY <2>1
    <3> QED BY <1>0, <3>1
  <2> HIDE DEF i, behind
  <2>3. cb' = [d \in Device |-> IF d \in Todo THEN "late" ELSE cb[d]]
    BY <1>0, <1>1, <1>2, <2>1, <2>2
  <2>4. status' = [d \in Device |-> IF d \in Todo THEN OFF_IRQ ELSE status[d]]
    BY <1>1, <2>1, <2>2
  <2> QED BY <1>1, <1>3, <2>1, <2>3, <2>4
<1>5. CASE bad # NoDevice
  <2>1. i \in 1..Len(list)
    <3>1. \E k \in DOMAIN list : list[k] = bad
      BY <1>0, <1>1, <1>5
    <3> QED BY <1>0, <1>5, <3>1
  <2>2. i # 0 /\ behind \subseteq Todo
    <3> HIDE DEF i
    <3>1. i # 0 /\ \A j \in i + 1 .. Len(list) : j \in 1..Len(list)
      BY <1>0, <2>1
    <3> QED BY <1>0, <3>1
  <2> HIDE DEF i, behind
  <2>3. cb' = [d \in Device |-> cb[d]]
    BY <1>1, <1>2, <2>2
  <2>4. status' = [d \in Device |-> status[d]]
    BY <1>1, <1>2, <2>2
  <2> QED BY <1>0, <1>1, <1>3, <2>2, <2>3, <2>4
<1> QED BY <1>4, <1>5

(* dpm_resume_noirq takes every device one stage up, since all are in      *)
(* OFF_IRQ.                                                                *)
LEMMA ResumeNoirq ==
  ASSUME PMInv, dpm_resume_noirq
  PROVE  /\ phase = "asleep" /\ UNCHANGED <<list, local, cur, cycle, astray>>
         /\ started' \in BOOLEAN /\ phase' = "resume"
         /\ status' = [d \in Device |-> IF d \in Todo THEN OFF ELSE status[d]]
         /\ cb' = [d \in Device |-> IF d \in Todo THEN "suspended" ELSE cb[d]]
<1>1. \A d \in Todo : status[d] = OFF_IRQ /\ cb[d] = "late"
  BY DEF dpm_resume_noirq, PMInv, Staged, At
<1>2. \A d \in Todo : status[d] > OFF
  BY <1>1 DEF OFF, OFF_IRQ
<1>3. /\ status' = [d \in Device |-> IF d \in Todo /\ status[d] > OFF THEN OFF ELSE status[d]]
      /\ cb' = [d \in Device |-> IF d \in Todo /\ status[d] > OFF
                                 THEN IF cb[d] = "late" THEN "suspended" ELSE "misused"
                                 ELSE cb[d]]
  BY DEF dpm_resume_noirq, Todo
<1>4. status' = [d \in Device |-> IF d \in Todo THEN OFF ELSE status[d]]
  BY <1>2, <1>3, Zenon
<1>5. cb' = [d \in Device |-> IF d \in Todo THEN "suspended" ELSE cb[d]]
  BY <1>1, <1>2, <1>3
<1> QED BY <1>4, <1>5 DEF dpm_resume_noirq

(* Both late walks keep the callbacks paired, the undoing of a failed one  *)
(* included.                                                               *)
LEMMA NoirqPairs ==
  ASSUME PMInv,
         (\E bad \in Device \cup {NoDevice} : dpm_suspend_noirq(bad)) \/ dpm_resume_noirq
  PROVE  PMInv'
<1>0. TypeOK /\ Linked /\ Staged /\ CallbacksPaired /\ Todo \subseteq Device
  BY SetOfSeq DEF PMInv, Linked, Todo
<1>1. /\ phase \in {"noirq", "asleep"} /\ UNCHANGED <<list, local, cur, cycle, astray>>
      /\ started' \in BOOLEAN
      /\ \/ /\ phase' = "asleep"
            /\ status' = [d \in Device |-> IF d \in Todo THEN OFF_IRQ ELSE status[d]]
            /\ cb' = [d \in Device |-> IF d \in Todo THEN "late" ELSE cb[d]]
         \/ /\ phase' = "resume" /\ status' = status /\ cb' = cb
            /\ \A d \in Todo : At(d, OFF, "suspended")
         \/ /\ phase' = "resume"
            /\ status' = [d \in Device |-> IF d \in Todo THEN OFF ELSE status[d]]
            /\ cb' = [d \in Device |-> IF d \in Todo THEN "suspended" ELSE cb[d]]
  BY <1>0, SuspendNoirq, ResumeNoirq DEF Staged
<1>2. /\ phase' \in {"asleep", "resume"} /\ status' \in [Device -> ON..OFF_IRQ]
      /\ cb' \in [Device -> {"on", "prepared", "suspended", "late", "misused"}]
      /\ \A d \in Device : cb'[d] # "misused"
      /\ phase' = "asleep" => \A d \in Todo : status'[d] = OFF_IRQ /\ cb'[d] = "late"
      /\ phase' = "resume" => \A d \in Todo : status'[d] = OFF /\ cb'[d] = "suspended"
  BY <1>0, <1>1 DEF TypeOK, CallbacksPaired, At, ON, OFF, OFF_IRQ
<1>3. Todo' = Todo /\ Done' = Done /\ Done = {} /\ cur = NoDevice
  BY <1>0, <1>1, NoneIn DEF Todo, Done, Linked
<1>4. TypeOK'
  BY <1>0, <1>1, <1>2 DEF TypeOK, Phase
<1>5. Linked'
  BY <1>0, <1>1, <1>2, <1>3 DEF Linked
<1>6. Staged'
  BY <1>1, <1>2, <1>3 DEF Staged, At
<1> QED BY <1>2, <1>4, <1>5, <1>6 DEF PMInv, CallbacksPaired

(* dpm_resume keeps the callbacks paired. *)
LEMMA ResumePairs ==
  ASSUME PMInv, ResumeCall \/ ResumeSkip \/ ResumeReturn \/ ResumeDone
  PROVE  PMInv'
<1>0. /\ TypeOK /\ Linked /\ Staged /\ CallbacksPaired /\ NoDevice \notin Device
      /\ list \in Seq(Device) /\ Todo \subseteq Device /\ Done \subseteq Device
      /\ phase = "resume" /\ Todo \cap Done = {}
  <2>1. list \in Seq(Device) /\ local \in Seq(Device) /\ Todo \cap Done = {}
    BY DEF PMInv, Linked
  <2>2. Todo \subseteq Device /\ Done \subseteq Device
    BY <2>1, SetOfSeq DEF Todo, Done
  <2> QED BY <2>1, <2>2, DeviceAssumption
      DEF PMInv, ResumeCall, ResumeSkip, ResumeReturn, ResumeDone
<1>1. CASE ResumeCall
  <2> DEFINE d == Head(list)
  <2>1. d \in Todo /\ cur = NoDevice /\ status[d] >= OFF
    BY <1>0, <1>1, ListEnds DEF ResumeCall, Todo
  <2>2. d \in Device /\ At(d, OFF, "suspended")
    BY <1>0, <2>1 DEF Staged, At, ON, SUSPENDING, OFF
  <2>3. /\ Todo' = Todo /\ Done' = Done /\ cur' = d /\ phase' = "resume"
        /\ UNCHANGED <<list, local, started, cycle, astray>>
        /\ status' = [status EXCEPT ![d] = RESUMING]
        /\ cb' = [cb EXCEPT ![d] = "prepared"]
    BY <1>0, <1>1, <2>2 DEF ResumeCall, Todo, Done, Called, At, TypeOK
  <2> HIDE DEF d
  <2>4. TypeOK' /\ CallbacksPaired'
    BY <1>0, <2>2, <2>3 DEF TypeOK, CallbacksPaired, ON, RESUMING, OFF_IRQ
  <2>5. Linked'
    BY <1>0, <2>1, <2>3 DEF Linked
  <2>6. Staged'
    BY <1>0, <2>1, <2>2, <2>3 DEF TypeOK, Staged, At
  <2> QED BY <2>4, <2>5, <2>6 DEF PMInv
<1>2. CASE ResumeSkip
  <2> DEFINE d == Head(list)
  <2>1. d \in Todo /\ d \in Device /\ d \notin Done /\ cur = NoDevice /\ status[d] < OFF
    BY <1>0, <1>2, ListEnds DEF ResumeSkip, Todo
  <2>2. At(d, ON, "on") \/ At(d, SUSPENDING, "prepared")
    BY <1>0, <2>1 DEF Staged, At, OFF
  <2>3. /\ list' = list_del(list, d) /\ local' = Append(local, d)
        /\ UNCHANGED <<phase, cur, started, cb, cycle, astray>>
        /\ status' = [status EXCEPT ![d] = IF status[d] = SUSPENDING THEN RESUMING ELSE status[d]]
    BY <1>2 DEF ResumeSkip
  <2> HIDE DEF d
  <2>4. NextListsOK /\ Todo' = Todo \ {d} /\ Done' = Done \cup {d}
    BY <1>0, <2>1, <2>3, Moved
  <2>5. \/ status'[d] = ON /\ cb'[d] = "on"
        \/ status'[d] = RESUMING /\ cb'[d] = "prepared"
    BY <1>0, <2>1, <2>2, <2>3 DEF TypeOK, At, ON, SUSPENDING
  <2>6. TypeOK' /\ CallbacksPaired'
    BY <1>0, <2>1, <2>3, <2>4 DEF TypeOK, NextListsOK, CallbacksPaired, ON, RESUMING, OFF_IRQ
  <2>7. Linked'
    BY <1>0, <2>1, <2>3, <2>4 DEF Linked, NextListsOK
  <2>8. Staged'
    BY <1>0, <2>1, <2>3, <2>4, <2>5 DEF TypeOK, Staged, At
  <2> QED BY <2>6, <2>7, <2>8 DEF PMInv
<1>3. CASE ResumeReturn
  <2>1. /\ cur \in Device /\ cur \notin Done
        /\ cur' = NoDevice /\ UNCHANGED <<phase, status, started, cb, cycle, astray>>
    BY <1>0, <1>3 DEF ResumeReturn, TypeOK, Linked
  <2>2. /\ NextListsOK
        /\ Todo' = Todo \ {cur} /\ Done' = IF cur \in Todo THEN Done \cup {cur} ELSE Done
    <3>1. list' = list_del(list, cur) /\ local' = IF cur \in Todo THEN Append(local, cur) ELSE local
      BY <1>3 DEF ResumeReturn, MoveTail, Todo
    <3> QED BY <1>0, <2>1, <3>1, Moved
  <2>3. TypeOK' /\ CallbacksPaired'
    BY <1>0, <2>1, <2>2 DEF TypeOK, NextListsOK, CallbacksPaired
  <2>4. Linked'
    BY <1>0, <2>1, <2>2 DEF Linked, NextListsOK, Done
  <2>5. Staged'
    BY <1>0, <2>1, <2>2 DEF Staged, At
  <2> QED BY <2>3, <2>4, <2>5 DEF PMInv
<1>4. CASE ResumeDone
  <2>1. NextListsOK /\ Merged
    BY <1>0, <1>4, Spliced DEF ResumeDone
  <2>2. Todo = {}
    BY <1>4, NoneIn DEF ResumeDone, Todo
  <2>3. TypeOK' /\ CallbacksPaired'
    BY <1>0, <1>4, <2>1 DEF ResumeDone, TypeOK, NextListsOK, CallbacksPaired, Phase
  <2>4. Linked'
    BY <1>0, <1>4, <2>1 DEF ResumeDone, Linked, NextListsOK, Merged
  <2>5. Staged'
    BY <1>0, <1>4, <2>1, <2>2 DEF ResumeDone, Staged, At, Merged
  <2> QED BY <2>3, <2>4, <2>5 DEF PMInv
<1> QED BY <1>1, <1>2, <1>3, <1>4

(* dpm_complete keeps the callbacks paired. *)
LEMMA CompletePairs ==
  ASSUME PMInv, CompleteCall \/ CompleteSkip \/ CompleteReturn \/ CompleteDone
  PROVE  PMInv'
<1>0. /\ TypeOK /\ Linked /\ Staged /\ CallbacksPaired /\ NoDevice \notin Device
      /\ list \in Seq(Device) /\ Todo \subseteq Device /\ Done \subseteq Device
      /\ phase = "complete" /\ Todo \cap Done = {}
  <2>1. list \in Seq(Device) /\ local \in Seq(Device) /\ Todo \cap Done = {}
    BY DEF PMInv, Linked
  <2>2. Todo \subseteq Device /\ Done \subseteq Device
    BY <2>1, SetOfSeq DEF Todo, Done
  <2> QED BY <2>1, <2>2, DeviceAssumption
      DEF PMInv, CompleteCall, CompleteSkip, CompleteReturn, CompleteDone
<1>1. CASE CompleteCall
  <2> DEFINE d == Last(list)
  <2>1. d \in Todo /\ d \in Device /\ cur = NoDevice /\ status[d] > ON
    BY <1>0, <1>1, ListEnds DEF CompleteCall, Todo
  <2>2. At(d, RESUMING, "prepared")
    BY <1>0, <2>1 DEF Staged, At, ON
  <2>3. /\ Todo' = Todo /\ Done' = Done /\ cur' = d /\ phase' = "complete"
        /\ UNCHANGED <<list, local, started, cycle, astray>>
        /\ status' = [status EXCEPT ![d] = ON]
        /\ cb' = [cb EXCEPT ![d] = "on"]
    BY <1>0, <1>1, <2>2 DEF CompleteCall, Todo, Done, Called, At, TypeOK
  <2> HIDE DEF d
  <2>4. TypeOK' /\ CallbacksPaired'
    BY <1>0, <2>1, <2>3 DEF TypeOK, CallbacksPaired, ON, OFF_IRQ
  <2>5. Linked'
    BY <1>0, <2>1, <2>3 DEF Linked
  <2>6. Staged'
    BY <1>0, <2>1, <2>2, <2>3 DEF TypeOK, Staged, At
  <2> QED BY <2>4, <2>5, <2>6 DEF PMInv
<1>2. CASE CompleteSkip
  <2> DEFINE d == Last(list)
  <2>1. d \in Todo /\ d \in Device /\ d \notin Done /\ cur = NoDevice /\ status[d] = ON
    BY <1>0, <1>2, ListEnds DEF CompleteSkip, Todo
  <2>2. At(d, ON, "on")
    BY <1>0, <2>1 DEF Staged, At, ON, RESUMING
  <2>3. /\ list' = list_del(list, d) /\ local' = <<d>> \o local
        /\ UNCHANGED <<phase, cur, status, started, cb, cycle, astray>>
    BY <1>2 DEF CompleteSkip
  <2> HIDE DEF d
  <2>4. NextListsOK /\ Todo' = Todo \ {d} /\ Done' = Done \cup {d}
    BY <1>0, <2>1, <2>3, Moved
  <2>5. TypeOK' /\ CallbacksPaired'
    BY <1>0, <2>1, <2>3, <2>4 DEF TypeOK, NextListsOK, CallbacksPaired
  <2>6. Linked'
    BY <1>0, <2>1, <2>3, <2>4 DEF Linked, NextListsOK
  <2>7. Staged'
    BY <1>0, <2>1, <2>2, <2>3, <2>4 DEF Staged, At
  <2> QED BY <2>5, <2>6, <2>7 DEF PMInv
<1>3. CASE CompleteReturn
  <2>1. /\ cur \in Device /\ cur \notin Done
        /\ cur' = NoDevice /\ UNCHANGED <<phase, status, started, cb, cycle, astray>>
    BY <1>0, <1>3 DEF CompleteReturn, TypeOK, Linked
  <2>2. /\ NextListsOK
        /\ Todo' = Todo \ {cur} /\ Done' = IF cur \in Todo THEN Done \cup {cur} ELSE Done
    <3>1. list' = list_del(list, cur) /\ local' = IF cur \in Todo THEN <<cur>> \o local ELSE local
      BY <1>3 DEF CompleteReturn, MoveHead, Todo
    <3> QED BY <1>0, <2>1, <3>1, Moved
  <2>3. TypeOK' /\ CallbacksPaired'
    BY <1>0, <2>1, <2>2 DEF TypeOK, NextListsOK, CallbacksPaired
  <2>4. Linked'
    BY <1>0, <2>1, <2>2 DEF Linked, NextListsOK, Done
  <2>5. Staged'
    BY <1>0, <1>3, <2>1, <2>2 DEF CompleteReturn, Staged, At
  <2> QED BY <2>3, <2>4, <2>5 DEF PMInv
<1>4. CASE CompleteDone
  <2>1. NextListsOK /\ Merged
    BY <1>0, <1>4, Spliced DEF CompleteDone
  <2>2. Todo = {}
    BY <1>4, NoneIn DEF CompleteDone, Todo
  <2>3. TypeOK' /\ CallbacksPaired'
    BY <1>0, <1>4, <2>1 DEF CompleteDone, TypeOK, NextListsOK, CallbacksPaired, Phase
  <2>4. Linked'
    BY <1>0, <1>4, <2>1 DEF CompleteDone, Linked, NextListsOK, Merged
  <2>5. Staged'
    BY <1>0, <1>4, <2>1, <2>2 DEF CompleteDone, Staged, At, Merged
  <2> QED BY <2>3, <2>4, <2>5 DEF PMInv
<1> QED BY <1>1, <1>2, <1>3, <1>4

(***************************************************************************)
(* Devices that come and go in a callback.  None can come in dpm_suspend:  *)
(* every device that could be the parent is on its way down already.       *)
(***************************************************************************)
LEMMA AddPairs ==
  ASSUME PMInv, NEW d \in Device, device_pm_add(d)
  PROVE  /\ PMInv' /\ phase # "suspend" /\ Todo' = Todo \cup {d} /\ Done' = Done
<1>0. /\ TypeOK /\ Linked /\ Staged /\ CallbacksPaired /\ NoDevice \notin Device
      /\ d \notin Todo \cup Done /\ d # cur
  BY DeviceAssumption DEF PMInv, device_pm_add, Registered, Todo, Done
<1>1. /\ list' = Append(list, d) /\ UNCHANGED <<phase, local, cur, started, cycle>>
      /\ astray' \subseteq astray \cup {d}
      /\ status' = [status EXCEPT ![d] = ON] /\ cb' = [cb EXCEPT ![d] = "on"]
      /\ phase \notin {"noirq", "asleep"}
      /\ IF Parent[d] = NoDevice THEN ~started
         ELSE Parent[d] \in Todo \cup Done /\ status[Parent[d]] < SUSPENDING
  BY DEF device_pm_add, MutexFree, Registered, Todo, Done
<1>2. NextListsOK /\ Todo' = Todo \cup {d} /\ Done' = Done
  <2>1. /\ Append(list, d) \in Seq(Device) /\ IsInjective(Append(list, d))
        /\ ToSet(Append(list, d)) = ToSet(list) \cup {d}
    BY <1>0, AddDevice DEF Linked, Todo
  <2>2. Done' = Done
    BY <1>1 DEF Done
  <2> QED BY <1>0, <1>1, <2>1, <2>2 DEF Linked, NextListsOK, Todo
<1>3. phase # "suspend"
  <2> SUFFICES ASSUME phase = "suspend" PROVE FALSE
    OBVIOUS
  <2>1. started /\ \A x \in Todo \cup Done : status[x] \in {SUSPENDING, OFF}
    BY <1>0 DEF Linked, Staged, At
  <2> QED BY <1>1, <2>1 DEF SUSPENDING, OFF
<1>4. TypeOK' /\ CallbacksPaired'
  BY <1>0, <1>1, <1>2 DEF TypeOK, NextListsOK, CallbacksPaired, ON, OFF_IRQ
<1>5. Linked'
  BY <1>0, <1>1, <1>2 DEF Linked, NextListsOK
<1>6. Staged'
  <2>1. At(d, ON, "on")'
    BY <1>0, <1>1 DEF TypeOK, At
  <2>2. \A x \in (Todo \cup Done) \cup {cur} : \A st, c : x # d => (At(x, st, c)' <=> At(x, st, c))
    BY <1>0, <1>1 DEF TypeOK, At
  <2> QED BY <1>0, <1>1, <1>2, <1>3, <2>1, <2>2 DEF Staged
<1> QED BY <1>2, <1>3, <1>4, <1>5, <1>6 DEF PMInv

(* device_pm_remove takes one device off either list, in any phase. *)
LEMMA RemovePairs ==
  ASSUME PMInv, NEW d \in Device, device_pm_remove(d)
  PROVE  /\ PMInv' /\ Todo' = Todo \ {d} /\ Done' = Done \ {d}
         /\ UNCHANGED <<phase, cur, status, started, cb, cycle, astray>>
         /\ \A c \in Todo \cup Done : Parent[c] # d
<1>0. TypeOK /\ Linked /\ Staged /\ CallbacksPaired
  BY DEF PMInv
<1>1. /\ UNCHANGED <<phase, cur, status, started, cb, cycle, astray>>
      /\ \A c \in Todo \cup Done : Parent[c] # d
  BY DEF device_pm_remove, Registered, Todo, Done
<1>2. NextListsOK /\ Todo' = Todo \ {d} /\ Done' = Done \ {d}
  <2>1. /\ list_del(list, d) \in Seq(Device) /\ IsInjective(list_del(list, d))
        /\ ToSet(list_del(list, d)) = ToSet(list) \ {d}
        /\ list_del(local, d) \in Seq(Device) /\ IsInjective(list_del(local, d))
        /\ ToSet(list_del(local, d)) = ToSet(local) \ {d}
    BY <1>0, DelList DEF Linked
  <2>2. list' = list_del(list, d) /\ local' = list_del(local, d)
    BY DEF device_pm_remove
  <2>3. Todo' = Todo \ {d} /\ Done' = Done \ {d}
    BY <2>1, <2>2 DEF Todo, Done
  <2> QED BY <1>0, <2>1, <2>2, <2>3 DEF Linked, NextListsOK
<1>3. TypeOK' /\ CallbacksPaired'
  BY <1>0, <1>1, <1>2 DEF TypeOK, NextListsOK, CallbacksPaired
<1>4. Linked'
  <2>1. local = << >> => local' = << >>
    <3> SUFFICES ASSUME local = << >> PROVE local' = << >>
      OBVIOUS
    <3>1. Done = {}
      BY NoneIn DEF Done
    <3> QED BY <1>2, <3>1, SetEmpty DEF NextListsOK, Done
  <2> QED BY <1>0, <1>1, <1>2, <2>1 DEF Linked, NextListsOK
<1>5. Staged'
  BY <1>0, <1>1, <1>2 DEF Staged, At
<1> QED BY <1>1, <1>2, <1>3, <1>4, <1>5 DEF PMInv
-----------------------------------------------------------------------------
(* Every step of the walks, and devices that come and go, keep PMInv. *)
LEMMA PMInvStep == ASSUME PMInv, [Next]_vars PROVE PMInv'
<1>1. CASE \E d \in Device : device_pm_add(d) \/ device_pm_remove(d)
  BY <1>1, AddPairs, RemovePairs
<1>2. CASE dpm_suspend_start
  <2>1. Todo' = Todo /\ Done' = Done /\ Done = {} /\ cur = NoDevice
    BY <1>2, NoneIn DEF dpm_suspend_start, Todo, Done, PMInv, Linked
  <2>2. TypeOK' /\ CallbacksPaired'
    BY <1>2, DeviceAssumption DEF dpm_suspend_start, PMInv, TypeOK, CallbacksPaired, Phase
  <2>3. Linked'
    BY <1>2, <2>1 DEF dpm_suspend_start, PMInv, Linked
  <2>4. Staged'
    BY <1>2, <2>1 DEF dpm_suspend_start, PMInv, Staged, At
  <2> QED BY <2>2, <2>3, <2>4 DEF PMInv
<1>3. CASE Walk
  BY <1>3, PreparePairs, SuspendPairs, NoirqPairs, ResumePairs, CompletePairs DEF Walk
<1>4. CASE UNCHANGED vars
  <2>1. Todo' = Todo /\ Done' = Done
    BY <1>4 DEF vars, Todo, Done
  <2> QED BY <1>4, <2>1 DEF vars, PMInv, TypeOK, Linked, Staged, At, CallbacksPaired
<1> QED BY <1>1, <1>2, <1>3, <1>4 DEF Next

(* Each device is linked once, and where it is linked says what has been   *)
(* called on it, at any point of the walks of dpm_suspend_start and        *)
(* dpm_resume_end.                                                         *)
THEOREM PMInvAlways == Spec => []PMInv
<1>1. Init => PMInv
  <2> SUFFICES ASSUME Init PROVE PMInv
    OBVIOUS
  <2>1. Todo = {} /\ Done = {}
    BY NoneIn DEF Init, Todo, Done
  <2>2. TypeOK /\ CallbacksPaired
    <3>1. list \in Seq(Device) /\ local \in Seq(Device)
      BY NoneIn DEF Init
    <3>2. status \in [Device -> ON..OFF_IRQ]
      BY DEF Init, ON, OFF_IRQ
    <3>3. cb \in [Device -> {"on", "prepared", "suspended", "late", "misused"}] /\ CallbacksPaired
      BY DEF Init, CallbacksPaired
    <3>4. phase \in Phase /\ cur \in Device \cup {NoDevice} /\ started \in BOOLEAN
      BY DEF Init, Phase
    <3>5. cycle \in 0..MaxCycle
      BY DeviceAssumption DEF Init
    <3>6. astray \subseteq Device
      BY DEF Init
    <3> QED BY <3>1, <3>2, <3>3, <3>4, <3>5, <3>6 DEF TypeOK
  <2>3. Linked
    BY <2>1, NoneIn DEF Init, Linked
  <2>4. Staged
    BY <2>1 DEF Init, Staged
  <2> QED BY <2>2, <2>3, <2>4 DEF PMInv
<1> QED BY <1>1, PMInvStep, PTL DEF Spec

(***************************************************************************)
(* Each callback finds its device where the one before left it, whatever   *)
(* fails and whichever devices come and go as pm.h lets them: no device is *)
(* resumed that was not suspended, or completed that was not prepared.     *)
(***************************************************************************)
THEOREM CallbacksAlwaysPaired == Spec => []CallbacksPaired
<1>1. PMInv => CallbacksPaired
  BY DEF PMInv
<1> QED BY <1>1, PMInvAlways, PTL

(***************************************************************************)
(* When a transition is over, however it ended, every registered device is *)
(* on and every device that was prepared was completed.                    *)
(***************************************************************************)
THEOREM NobodyLeftBehind == Spec => []NoneLeftBehind
<1>1. PMInv => NoneLeftBehind
  <2> SUFFICES ASSUME PMInv, phase = "idle", NEW d \in Registered
               PROVE  status[d] = ON /\ cb[d] = "on"
    BY DEF NoneLeftBehind
  <2>1. cur = NoDevice /\ Done = {} /\ Todo \subseteq Device
    BY NoneIn, SetOfSeq DEF PMInv, Linked, Todo, Done
  <2>2. d \in Todo \ {cur}
    BY <2>1, DeviceAssumption DEF Registered, Todo, Done
  <2> QED BY <2>2 DEF PMInv, Staged, At
<1> QED BY <1>1, PMInvAlways, PTL

(***************************************************************************)
(* The machine sleeps only with every registered device off, its noirq     *)
(* callback included.                                                      *)
(***************************************************************************)
THEOREM AlwaysAsleepOff == Spec => []AsleepAllOff
<1>1. PMInv => AsleepAllOff
  <2> SUFFICES ASSUME PMInv, phase = "asleep", NEW d \in Registered
               PROVE  status[d] = OFF_IRQ /\ cb[d] = "late"
    BY DEF AsleepAllOff
  <2>1. Done = {}
    BY NoneIn DEF PMInv, Linked, Done
  <2>2. d \in Todo
    BY <2>1 DEF Registered, Todo, Done
  <2> QED BY <2>2 DEF PMInv, Staged, At
<1> QED BY <1>1, PMInvAlways, PTL

(***************************************************************************)
(* No device is linked twice, whatever is added or removed in a callback.  *)
(***************************************************************************)
THEOREM AlwaysListedOnce == Spec => []ListedOnce
<1>1. PMInv => ListedOnce
  BY JoinLists DEF PMInv, Linked, Todo, Done, ListedOnce
<1> QED BY <1>1, PMInvAlways, PTL
-----------------------------------------------------------------------------
(***************************************************************************)
(* The order of the lists.                                                 *)
(***************************************************************************)
(* Only device_pm_add changes what stands for the parent. *)
LEMMA UpKept == ASSUME UNCHANGED astray PROVE Up' = Up
BY DEF Up

(* Moving a device whose parent is done to the end of the stack keeps both *)
(* lists in order.                                                         *)
LEMMA MovedForward ==
  ASSUME Linked, NEW d \in Device, d \notin Done,
         Sorted(Up, list), Sorted(Up, local), \A x \in Done : Up[x] \notin Todo,
         d \in Todo => Up[d] \notin Todo,
         list' = list_del(list, d),
         local' = IF d \in Todo THEN Append(local, d) ELSE local
  PROVE  Sorted(Up, list') /\ Sorted(Up, local') /\ \A x \in Done' : Up[x] \notin Todo'
<1>1. Todo' = Todo \ {d} /\ Done' = IF d \in Todo THEN Done \cup {d} ELSE Done
  BY Moved
<1>2. Sorted(Up, list')
  BY DelList DEF Linked
<1>3. Sorted(Up, local')
  <2>1. CASE d \in Todo
    <3>1. \A x \in ToSet(local) \cup {d} : Up[x] # d
      BY <2>1 DEF Done
    <3>2. Sorted(Up, Append(local, d))
      BY <3>1, AddDevice DEF Linked, Done
    <3> QED BY <2>1, <3>2
  <2>2. CASE d \notin Todo
    BY <2>2
  <2> QED BY <2>1, <2>2
<1> QED BY <1>1, <1>2, <1>3

(* Moving a device without children left to the front of the stack keeps   *)
(* both lists in order.                                                    *)
LEMMA MovedBackward ==
  ASSUME Linked, NEW d \in Device, d \notin Done,
         Sorted(Up, list), Sorted(Up, local), \A x \in Todo : Up[x] \notin Done,
         d \in Todo => \A x \in Todo : Up[x] # d,
         list' = list_del(list, d),
         local' = IF d \in Todo THEN <<d>> \o local ELSE local
  PROVE  Sorted(Up, list') /\ Sorted(Up, local') /\ \A x \in Todo' : Up[x] \notin Done'
<1>1. Todo' = Todo \ {d} /\ Done' = IF d \in Todo THEN Done \cup {d} ELSE Done
  BY Moved
<1>2. Sorted(Up, list')
  BY DelList DEF Linked
<1>3. Sorted(Up, local')
  <2>1. CASE d \in Todo
    <3>1. Up[d] \notin ToSet(local) \cup {d}
      BY <2>1 DEF Done
    <3>2. Sorted(Up, <<d>> \o local)
      BY <3>1, AddDevice DEF Linked, Done
    <3> QED BY <2>1, <3>2
  <2>2. CASE d \notin Todo
    BY <2>2
  <2> QED BY <2>1, <2>2
<1> QED BY <1>1, <1>2, <1>3

(* The end of a forward walk, and of a backward one. *)
LEMMA SplicedSorted ==
  ASSUME Linked, local' = << >>, Sorted(Up, list), Sorted(Up, local),
         \/ list' = local \o list /\ \A x \in Done : Up[x] \notin Todo
         \/ list' = list \o local /\ \A x \in Todo : Up[x] \notin Done
         \/ list = << >> /\ list' = local
  PROVE  Sorted(Up, list') /\ Sorted(Up, local')
<1>1. Sorted(Up, local')
  BY NoneIn
<1>2. CASE list' = local \o list /\ \A x \in Done : Up[x] \notin Todo
  <2>1. Sorted(Up, local \o list)
    BY <1>2, JoinLists DEF Linked, Todo, Done
  <2> QED BY <1>1, <1>2, <2>1, Zenon
<1>3. CASE list' = list \o local /\ \A x \in Todo : Up[x] \notin Done
  <2>1. Sorted(Up, list \o local)
    BY <1>3, JoinLists DEF Linked, Todo, Done
  <2> QED BY <1>1, <1>3, <2>1, Zenon
<1>4. CASE list = << >> /\ list' = local
  BY <1>1, <1>4
<1> QED BY <1>2, <1>3, <1>4

(* Outside dpm_resume, where a device is linked says whether it is off. *)
LEMMA ByPhase ==
  PMInv /\ phase # "resume" /\ (phase = "suspend" => \A d \in Todo : Up[d] \notin Done)
    => UpFirst
<1> SUFFICES ASSUME PMInv, phase # "resume",
                    phase = "suspend" => \A d \in Todo : Up[d] \notin Done,
                    NEW d \in Registered, Up[d] \in Registered, status[Up[d]] >= OFF
             PROVE  status[d] >= OFF
  BY DEF UpFirst
<1>1. /\ Staged /\ Linked /\ phase \in Phase /\ d \in Todo \cup Done /\ Up[d] \in Todo \cup Done
      /\ phase \in {"idle", "noirq", "asleep"} => Done = {}
  BY NoneIn DEF PMInv, TypeOK, Linked, Registered, Todo, Done
<1>2. CASE phase \in {"noirq", "asleep"}
  BY <1>1, <1>2 DEF Staged, At, OFF, OFF_IRQ
<1>3. CASE phase = "suspend"
  BY <1>1, <1>3 DEF Staged, At, SUSPENDING, OFF
<1>4. CASE phase \in {"idle", "prepare", "complete"}
  <2>1. cur \in Todo \cup Done => cur # NoDevice
    BY SetOfSeq, DeviceAssumption DEF PMInv, Linked, Todo, Done
  <2>2. \A x \in Todo \cup Done : status[x] \in {ON, PREPARING, SUSPENDING, RESUMING}
    BY <1>1, <1>4, <2>1 DEF Staged, At, Linked
  <2> QED BY <1>1, <2>2 DEF ON, PREPARING, SUSPENDING, RESUMING, OFF
<1> QED BY <1>1, <1>2, <1>3, <1>4 DEF Phase

(* The lists hold devices only. *)
LEMMA LinkedDevices == ASSUME Linked PROVE Todo \cup Done \subseteq Device
<1>1. Todo \subseteq Device
  BY SetOfSeq DEF Linked, Todo
<1>2. Done \subseteq Device
  BY SetOfSeq DEF Linked, Done
<1> QED BY <1>1, <1>2

(* dpm_prepare moves parents first. *)
LEMMA PrepareOrder ==
  ASSUME PMInv, OrderInv,
         PrepareCall \/ PrepareOk \/ (\E again \in BOOLEAN : PrepareFail(again)) \/ PrepareDone
  PROVE  OrderInv'
<1>0. /\ PMInv' /\ Up' = Up /\ Linked /\ phase = "prepare" /\ NoDevice \notin Device
      /\ list \in Seq(Device) /\ cur \in Device \cup {NoDevice} /\ cur \notin Done
      /\ Registered = Todo \cup Done /\ Registered' = Todo' \cup Done'
      /\ Sorted(Up, list) /\ Sorted(Up, local) /\ Rooted /\ Todo \cup Done \subseteq Device
      /\ \A x \in Done : Up[x] \notin Todo
      /\ cur \in Todo => Up[cur] \notin Todo
  BY PreparePairs, UpKept, LinkedDevices, DeviceAssumption
  DEF PMInv, TypeOK, Linked, Registered, Todo, Done, OrderInv, Forward,
      PrepareCall, PrepareOk, PrepareFail, PrepareDone
<1>1. (phase' # "resume" /\ (phase' = "suspend" => \A d \in Todo' : Up[d] \notin Done'))
        => UpFirst'
  <2>1. (PMInv /\ phase # "resume" /\ (phase = "suspend" => \A d \in Todo : Up[d] \notin Done)
            => UpFirst)'
    BY ByPhase, PTL
  <2> QED BY <1>0, <2>1
<1>2. CASE PrepareCall
  <2>1. Up[Head(list)] \notin Todo
    BY <1>0, <1>2, ListEnds DEF PrepareCall, Todo
  <2>2. Todo' = Todo /\ Done' = Done /\ UNCHANGED <<phase, list, local>> /\ cur' = Head(list)
    BY <1>2 DEF PrepareCall, Todo, Done
  <2>3. UpFirst'
    BY <1>0, <1>1, <2>2
  <2> QED BY <1>0, <2>1, <2>2, <2>3 DEF OrderInv, Rooted, Forward, Backward
<1>3. CASE PrepareOk
  <2>1. cur \in Device /\ cur' = NoDevice /\ phase' = "prepare"
    BY <1>0, <1>3 DEF PrepareOk
  <2>2. list' = list_del(list, cur) /\ local' = IF cur \in Todo THEN Append(local, cur) ELSE local
    BY <1>3 DEF PrepareOk, MoveTail, Todo
  <2>3. Todo' = Todo \ {cur} /\ Done' = IF cur \in Todo THEN Done \cup {cur} ELSE Done
    BY <1>0, <2>1, <2>2, Moved
  <2>4. Sorted(Up, list') /\ Sorted(Up, local') /\ \A x \in Done' : Up[x] \notin Todo'
    BY <1>0, <2>1, <2>2, MovedForward
  <2>5. Registered' = Registered
    BY <1>0, <2>3
  <2>6. UpFirst'
    BY <1>1, <2>1
  <2>7. cur' \notin Todo'
    BY <1>0, <2>1, <2>3
  <2> QED BY <1>0, <2>1, <2>4, <2>5, <2>6, <2>7 DEF OrderInv, Rooted, Forward, Backward
<1>4. ASSUME NEW again \in BOOLEAN, PrepareFail(again) PROVE OrderInv'
  <2>1. \/ (phase' = "prepare" /\ UNCHANGED <<list, local>>)
        \/ (phase' = "resume" /\ list' = local \o list /\ local' = << >>)
    BY <1>0, <1>4 DEF PrepareFail
  <2>2. cur' = NoDevice /\ status' = [status EXCEPT ![cur] = ON] /\ cur \in Device
    BY <1>0, <1>4 DEF PrepareFail
  <2>3. CASE phase' = "prepare" /\ UNCHANGED <<list, local>>
    <3>1. Todo' = Todo /\ Done' = Done /\ cur' \notin Todo'
      BY <1>0, <2>2, <2>3 DEF Todo, Done
    <3>2. UpFirst'
      BY <1>1, <2>3
    <3> QED BY <1>0, <2>3, <3>1, <3>2 DEF OrderInv, Rooted, Forward, Backward
  <2>4. CASE phase' = "resume" /\ list' = local \o list /\ local' = << >>
    <3>1. Merged /\ NextListsOK
      BY <1>0, <2>4, Spliced
    <3>2. Sorted(Up, list') /\ Sorted(Up, local')
      BY <1>0, <2>4, SplicedSorted
    <3>3. cur' \notin Todo' /\ Registered' = Registered
      BY <1>0, <2>2, <3>1 DEF Merged
    <3>4. UpFirst'
      <4>1. \A x \in Registered : status'[x] \in {ON, SUSPENDING}
        BY <1>0, <2>2 DEF PMInv, TypeOK, Staged, At
      <4> QED BY <3>3, <4>1 DEF UpFirst, ON, SUSPENDING, OFF
    <3> QED BY <1>0, <2>4, <3>1, <3>2, <3>3, <3>4
        DEF OrderInv, Rooted, Forward, Backward, Merged
  <2> QED BY <2>1, <2>3, <2>4
<1>5. CASE PrepareDone
  <2>1. NextListsOK /\ Merged /\ Sorted(Up, list') /\ Sorted(Up, local')
    BY <1>0, <1>5, Spliced, SplicedSorted DEF PrepareDone
  <2>2. phase' = "suspend" /\ cur' = NoDevice
    BY <1>5 DEF PrepareDone
  <2>3. cur' \notin Todo' /\ Registered' = Registered /\ Done' = {}
    BY <1>0, <2>1, <2>2 DEF Merged
  <2>4. UpFirst'
    BY <1>1, <2>2, <2>3
  <2> QED BY <1>0, <2>1, <2>2, <2>3, <2>4 DEF OrderInv, Rooted, Forward, Backward
<1> QED BY <1>2, <1>3, <1>4, <1>5

(* dpm_suspend moves children first. *)
LEMMA SuspendOrder ==
  ASSUME PMInv, OrderInv, SuspendCall \/ SuspendOk \/ SuspendFail \/ SuspendDone
  PROVE  OrderInv'
<1>0. /\ PMInv' /\ Up' = Up /\ Linked /\ phase = "suspend" /\ NoDevice \notin Device
      /\ list \in Seq(Device) /\ cur \in Device \cup {NoDevice} /\ cur \notin Done
      /\ Registered = Todo \cup Done /\ Registered' = Todo' \cup Done'
      /\ Sorted(Up, list) /\ Sorted(Up, local) /\ Rooted /\ Todo \cup Done \subseteq Device
      /\ \A x \in Todo : Up[x] \notin Done
      /\ cur \in Todo => \A x \in Todo : Up[x] # cur
  BY SuspendPairs, UpKept, LinkedDevices, DeviceAssumption
  DEF PMInv, TypeOK, Linked, Registered, Todo, Done, OrderInv, Backward,
      SuspendCall, SuspendOk, SuspendFail, SuspendDone
<1>1. (phase' # "resume" /\ (phase' = "suspend" => \A d \in Todo' : Up[d] \notin Done'))
        => UpFirst'
  <2>1. (PMInv /\ phase # "resume" /\ (phase = "suspend" => \A d \in Todo : Up[d] \notin Done)
            => UpFirst)'
    BY ByPhase, PTL
  <2> QED BY <1>0, <2>1
<1>2. CASE SuspendCall
  <2>1. \A x \in Todo : Up[x] # Last(list)
    BY <1>0, <1>2, ListEnds DEF SuspendCall, Todo
  <2>2. Todo' = Todo /\ Done' = Done /\ UNCHANGED <<phase, list, local>> /\ cur' = Last(list)
    BY <1>2 DEF SuspendCall, Todo, Done
  <2>3. UpFirst'
    BY <1>0, <1>1, <2>2
  <2> QED BY <1>0, <2>1, <2>2, <2>3 DEF OrderInv, Rooted, Forward, Backward
<1>3. CASE SuspendOk
  <2>1. cur \in Device /\ cur' = NoDevice /\ phase' = "suspend"
    BY <1>0, <1>3 DEF SuspendOk
  <2>2. list' = list_del(list, cur) /\ local' = IF cur \in Todo THEN <<cur>> \o local ELSE local
    BY <1>3 DEF SuspendOk, MoveHead, Todo
  <2>3. Todo' = Todo \ {cur} /\ Done' = IF cur \in Todo THEN Done \cup {cur} ELSE Done
    BY <1>0, <2>1, <2>2, Moved
  <2>4. Sorted(Up, list') /\ Sorted(Up, local') /\ \A x \in Todo' : Up[x] \notin Done'
    BY <1>0, <2>1, <2>2, MovedBackward
  <2>5. Registered' = Registered
    BY <1>0, <2>3
  <2>6. UpFirst'
    BY <1>1, <2>1, <2>4
  <2>7. cur' \notin Todo'
    BY <1>0, <2>1, <2>3
  <2> QED BY <1>0, <2>1, <2>4, <2>5, <2>6, <2>7 DEF OrderInv, Rooted, Forward, Backward
<1>4. CASE SuspendFail
  <2>1. NextListsOK /\ Merged /\ Sorted(Up, list') /\ Sorted(Up, local')
    BY <1>0, <1>4, Spliced, SplicedSorted DEF SuspendFail
  <2>2. phase' = "resume" /\ cur' = NoDevice /\ status' = status
    BY <1>4 DEF SuspendFail
  <2>3. cur' \notin Todo' /\ Registered' = Registered /\ Done' = {}
    BY <1>0, <2>1, <2>2 DEF Merged
  <2>4. UpFirst'
    BY <1>0, <2>2, <2>3 DEF OrderInv, UpFirst
  <2> QED BY <1>0, <2>1, <2>2, <2>3, <2>4 DEF OrderInv, Rooted, Forward, Backward
<1>5. CASE SuspendDone
  <2>1. NextListsOK /\ Merged /\ Sorted(Up, list') /\ Sorted(Up, local')
    BY <1>0, <1>5, Spliced, SplicedSorted DEF SuspendDone
  <2>2. phase' = "noirq"
    BY <1>5 DEF SuspendDone
  <2>3. Registered' = Registered
    BY <1>0, <2>1 DEF Merged
  <2>4. UpFirst'
    BY <1>1, <2>2
  <2> QED BY <1>0, <2>1, <2>2, <2>3, <2>4 DEF OrderInv, Rooted, Forward, Backward
<1> QED BY <1>2, <1>3, <1>4, <1>5

(* The late walks move nobody. *)
LEMMA NoirqOrder ==
  ASSUME PMInv, OrderInv,
         (\E bad \in Device \cup {NoDevice} : dpm_suspend_noirq(bad)) \/ dpm_resume_noirq
  PROVE  OrderInv'
<1>0. /\ PMInv' /\ Up' = Up /\ Linked /\ phase \in {"noirq", "asleep"} /\ phase' \in {"asleep", "resume"}
      /\ UNCHANGED <<list, local, cur>>
  BY NoirqPairs, SuspendNoirq, ResumeNoirq, UpKept DEF PMInv
<1>1. /\ Done = {} /\ cur = NoDevice /\ Todo' = Todo /\ Done' = Done /\ Registered' = Registered
      /\ Registered = Todo /\ cur \notin Todo
  BY <1>0, NoneIn, LinkedDevices, DeviceAssumption DEF Linked, Todo, Done, Registered
<1>2. UpFirst'
  <2>1. \A x \in Todo : status'[x] \in {OFF, OFF_IRQ}
    <3>1. \A x \in Todo : x \in Device /\ status[x] \in {OFF, OFF_IRQ}
      BY <1>0, LinkedDevices DEF PMInv, Staged, At
    <3> QED BY <3>1, SuspendNoirq, ResumeNoirq
  <2> QED BY <1>0, <1>1, <2>1 DEF UpFirst, OFF, OFF_IRQ
<1> QED BY <1>0, <1>1, <1>2 DEF OrderInv, Rooted, Forward, Backward

(* dpm_resume moves parents first. *)
LEMMA ResumeOrder ==
  ASSUME PMInv, OrderInv, ResumeCall \/ ResumeSkip \/ ResumeReturn \/ ResumeDone
  PROVE  OrderInv'
<1>0. /\ PMInv' /\ Up' = Up /\ Linked /\ phase = "resume" /\ NoDevice \notin Device
      /\ list \in Seq(Device) /\ cur \in Device \cup {NoDevice} /\ cur \notin Done
      /\ Registered = Todo \cup Done /\ Registered' = Todo' \cup Done'
      /\ Sorted(Up, list) /\ Sorted(Up, local) /\ Rooted /\ Todo \cup Done \subseteq Device
      /\ \A x \in Done : Up[x] \notin Todo
      /\ cur \in Todo => Up[cur] \notin Todo
  BY ResumePairs, UpKept, LinkedDevices, DeviceAssumption
  DEF PMInv, TypeOK, Linked, Registered, Todo, Done, OrderInv, Forward,
      ResumeCall, ResumeSkip, ResumeReturn, ResumeDone
<1>1. (phase' # "resume" /\ (phase' = "suspend" => \A d \in Todo' : Up[d] \notin Done'))
        => UpFirst'
  <2>1. (PMInv /\ phase # "resume" /\ (phase = "suspend" => \A d \in Todo : Up[d] \notin Done)
            => UpFirst)'
    BY ByPhase, PTL
  <2> QED BY <1>0, <2>1
<1>2. CASE ResumeCall
  <2> DEFINE d == Head(list)
  <2>1. d \in Todo /\ Up[d] \notin Todo
    BY <1>0, <1>2, ListEnds DEF ResumeCall, Todo
  <2>2. /\ Todo' = Todo /\ Done' = Done /\ UNCHANGED <<phase, list, local>> /\ cur' = d
        /\ status' = [status EXCEPT ![d] = RESUMING] /\ cur = NoDevice
    BY <1>2 DEF ResumeCall, Todo, Done
  <2> HIDE DEF d
  (* The parent of d, if it has one, has been resumed. *)
  <2>3. UpFirst'
    <3>1. \A x \in Done : status[x] \in {ON, RESUMING}
      BY <1>0 DEF PMInv, Staged, At
    <3>2. Up[d] \in Registered => ~(status'[Up[d]] >= OFF)
      <4> SUFFICES ASSUME Up[d] \in Registered PROVE ~(status'[Up[d]] >= OFF)
        OBVIOUS
      <4>1. Up[d] \in Done /\ Up[d] \in Device /\ Up[d] # d
        BY <1>0, <2>1
      <4>2. status'[Up[d]] \in {ON, RESUMING}
        BY <2>2, <3>1, <4>1 DEF PMInv, TypeOK
      <4> QED BY <4>2 DEF ON, RESUMING, OFF
    <3>3. \A x \in Device : status'[x] >= OFF => status[x] >= OFF
      BY <2>2 DEF PMInv, TypeOK, RESUMING, OFF
    <3>4. \A x \in Registered : x \in Device /\ (x # d => status'[x] = status[x])
      BY <1>0, <2>2 DEF PMInv, TypeOK
    <3>5. Registered' = Registered
      BY <1>0, <2>2
    <3> QED BY <1>0, <3>2, <3>3, <3>4, <3>5 DEF OrderInv, UpFirst
  <2> QED BY <1>0, <2>1, <2>2, <2>3 DEF OrderInv, Rooted, Forward, Backward
<1>3. CASE ResumeSkip
  <2> DEFINE d == Head(list)
  <2>1. d \in Todo /\ Up[d] \notin Todo /\ d \in Device /\ d \notin Done
    BY <1>0, <1>3, ListEnds DEF ResumeSkip, Linked, Todo
  <2>2. /\ list' = list_del(list, d) /\ local' = Append(local, d) /\ UNCHANGED <<phase, cur>>
        /\ cur = NoDevice /\ status[d] < OFF
        /\ status' = [status EXCEPT ![d] = IF status[d] = SUSPENDING THEN RESUMING ELSE status[d]]
    BY <1>3 DEF ResumeSkip
  <2> HIDE DEF d
  <2>3. Todo' = Todo \ {d} /\ Done' = Done \cup {d}
    BY <1>0, <2>1, <2>2, Moved
  <2>4. Sorted(Up, list') /\ Sorted(Up, local') /\ \A x \in Done' : Up[x] \notin Todo'
    BY <1>0, <2>1, <2>2, MovedForward
  <2>5. Registered' = Registered /\ cur' \notin Todo'
    BY <1>0, <2>1, <2>2, <2>3
  <2>6. UpFirst'
    <3>1. \A x \in Registered : x \in Device /\ (status'[x] >= OFF <=> status[x] >= OFF)
      <4>1. \A x \in Device : x # d => status'[x] = status[x]
        BY <2>2 DEF PMInv, TypeOK
      <4>2. ~(status'[d] >= OFF) /\ ~(status[d] >= OFF)
        <5>1. status[d] \in 1..6 /\ status'[d] \in {3, status[d]}
          BY <2>1, <2>2 DEF PMInv, TypeOK, RESUMING, ON, OFF_IRQ
        <5>2. status[d] < 5
          BY <2>2 DEF OFF
        <5> QED BY <5>1, <5>2 DEF OFF
      <4> QED BY <1>0, <4>1, <4>2
    <3> QED BY <1>0, <2>5, <3>1 DEF OrderInv, UpFirst
  <2> QED BY <1>0, <2>2, <2>4, <2>5, <2>6 DEF OrderInv, Rooted, Forward, Backward
<1>4. CASE ResumeReturn
  <2>1. cur \in Device /\ cur' = NoDevice /\ UNCHANGED <<phase, status>>
    BY <1>0, <1>4 DEF ResumeReturn
  <2>2. list' = list_del(list, cur) /\ local' = IF cur \in Todo THEN Append(local, cur) ELSE local
    BY <1>4 DEF ResumeReturn, MoveTail, Todo
  <2>3. Todo' = Todo \ {cur} /\ Done' = IF cur \in Todo THEN Done \cup {cur} ELSE Done
    BY <1>0, <2>1, <2>2, Moved
  <2>4. Sorted(Up, list') /\ Sorted(Up, local') /\ \A x \in Done' : Up[x] \notin Todo'
    BY <1>0, <2>1, <2>2, MovedForward
  <2>5. Registered' = Registered /\ cur' \notin Todo'
    BY <1>0, <2>1, <2>3
  <2>6. UpFirst'
    BY <1>0, <2>1, <2>5 DEF OrderInv, UpFirst
  <2> QED BY <1>0, <2>1, <2>4, <2>5, <2>6 DEF OrderInv, Rooted, Forward, Backward
<1>5. CASE ResumeDone
  <2>1. NextListsOK /\ Merged /\ Sorted(Up, list') /\ Sorted(Up, local')
    BY <1>0, <1>5, Spliced, SplicedSorted DEF ResumeDone
  <2>2. phase' = "complete" /\ cur' = NoDevice
    BY <1>5 DEF ResumeDone
  <2>3. cur' \notin Todo' /\ Registered' = Registered /\ Done' = {}
    BY <1>0, <2>1, <2>2 DEF Merged
  <2>4. UpFirst'
    BY <1>1, <2>2
  <2> QED BY <1>0, <2>1, <2>2, <2>3, <2>4 DEF OrderInv, Rooted, Forward, Backward
<1> QED BY <1>2, <1>3, <1>4, <1>5

(* dpm_complete moves children first. *)
LEMMA CompleteOrder ==
  ASSUME PMInv, OrderInv, CompleteCall \/ CompleteSkip \/ CompleteReturn \/ CompleteDone
  PROVE  OrderInv'
<1>0. /\ PMInv' /\ Up' = Up /\ Linked /\ phase = "complete" /\ NoDevice \notin Device
      /\ list \in Seq(Device) /\ cur \in Device \cup {NoDevice} /\ cur \notin Done
      /\ Registered = Todo \cup Done /\ Registered' = Todo' \cup Done'
      /\ Sorted(Up, list) /\ Sorted(Up, local) /\ Rooted /\ Todo \cup Done \subseteq Device
      /\ \A x \in Todo : Up[x] \notin Done
      /\ cur \in Todo => \A x \in Todo : Up[x] # cur
  BY CompletePairs, UpKept, LinkedDevices, DeviceAssumption
  DEF PMInv, TypeOK, Linked, Registered, Todo, Done, OrderInv, Backward,
      CompleteCall, CompleteSkip, CompleteReturn, CompleteDone
<1>1. (phase' # "resume" /\ (phase' = "suspend" => \A d \in Todo' : Up[d] \notin Done'))
        => UpFirst'
  <2>1. (PMInv /\ phase # "resume" /\ (phase = "suspend" => \A d \in Todo : Up[d] \notin Done)
            => UpFirst)'
    BY ByPhase, PTL
  <2> QED BY <1>0, <2>1
<1>2. CASE CompleteCall
  <2>1. \A x \in Todo : Up[x] # Last(list)
    BY <1>0, <1>2, ListEnds DEF CompleteCall, Todo
  <2>2. Todo' = Todo /\ Done' = Done /\ UNCHANGED <<phase, list, local>> /\ cur' = Last(list)
    BY <1>2 DEF CompleteCall, Todo, Done
  <2>3. UpFirst'
    BY <1>0, <1>1, <2>2
  <2> QED BY <1>0, <2>1, <2>2, <2>3 DEF OrderInv, Rooted, Forward, Backward
<1>3. CASE CompleteSkip
  <2> DEFINE d == Last(list)
  <2>1. d \in Todo /\ (\A x \in Todo : Up[x] # d) /\ d \in Device /\ d \notin Done
    BY <1>0, <1>3, ListEnds DEF CompleteSkip, Linked, Todo
  <2>2. /\ list' = list_del(list, d) /\ local' = <<d>> \o local /\ UNCHANGED <<phase, cur>>
        /\ cur = NoDevice
    BY <1>3 DEF CompleteSkip
  <2> HIDE DEF d
  <2>3. Todo' = Todo \ {d} /\ Done' = Done \cup {d}
    BY <1>0, <2>1, <2>2, Moved
  <2>4. Sorted(Up, list') /\ Sorted(Up, local') /\ \A x \in Todo' : Up[x] \notin Done'
    BY <1>0, <2>1, <2>2, MovedBackward
  <2>5. Registered' = Registered /\ cur' \notin Todo'
    BY <1>0, <2>1, <2>2, <2>3
  <2>6. UpFirst'
    BY <1>0, <1>1, <2>2
  <2> QED BY <1>0, <2>2, <2>4, <2>5, <2>6 DEF OrderInv, Rooted, Forward, Backward
<1>4. CASE CompleteReturn
  <2>1. cur \in Device /\ cur' = NoDevice /\ UNCHANGED phase
    BY <1>0, <1>4 DEF CompleteReturn
  <2>2. list' = list_del(list, cur) /\ local' = IF cur \in Todo THEN <<cur>> \o local ELSE local
    BY <1>4 DEF CompleteReturn, MoveHead, Todo
  <2>3. Todo' = Todo \ {cur} /\ Done' = IF cur \in Todo THEN Done \cup {cur} ELSE Done
    BY <1>0, <2>1, <2>2, Moved
  <2>4. Sorted(Up, list') /\ Sorted(Up, local') /\ \A x \in Todo' : Up[x] \notin Done'
    BY <1>0, <2>1, <2>2, MovedBackward
  <2>5. Registered' = Registered /\ cur' \notin Todo'
    BY <1>0, <2>1, <2>3
  <2>6. UpFirst'
    BY <1>0, <1>1, <2>1
  <2> QED BY <1>0, <2>1, <2>4, <2>5, <2>6 DEF OrderInv, Rooted, Forward, Backward
<1>5. CASE CompleteDone
  <2>1. NextListsOK /\ Merged /\ Sorted(Up, list') /\ Sorted(Up, local')
    BY <1>0, <1>5, Spliced, SplicedSorted DEF CompleteDone
  <2>2. phase' = "idle"
    BY <1>5 DEF CompleteDone
  <2>3. Registered' = Registered
    BY <1>0, <2>1 DEF Merged
  <2>4. UpFirst'
    BY <1>1, <2>2
  <2> QED BY <1>0, <2>1, <2>2, <2>3, <2>4 DEF OrderInv, Rooted, Forward, Backward
<1> QED BY <1>2, <1>3, <1>4, <1>5

(* A device comes behind all others, its parent among them, unless the     *)
(* parent is one that dpm_complete is at or has been at: then the device   *)
(* goes without.                                                           *)
LEMMA AddOrder ==
  ASSUME PMInv, OrderInv, NEW d \in Device, device_pm_add(d)
  PROVE  OrderInv'
<1>0. /\ Linked /\ Todo \cup Done \subseteq Device /\ NoDevice \notin Device
      /\ Registered = Todo \cup Done /\ Registered' = Todo' \cup Done'
      /\ d \notin Registered /\ d # cur /\ phase # "suspend"
      /\ Todo' = Todo \cup {d} /\ Done' = Done
      /\ \A x \in Registered : Up[x] \in Registered \cup {NoDevice}
  BY AddPairs, LinkedDevices, DeviceAssumption
  DEF PMInv, device_pm_add, Registered, Todo, Done, OrderInv, Rooted
<1>1. /\ list' = Append(list, d) /\ UNCHANGED <<phase, local, cur>>
      /\ status' = [status EXCEPT ![d] = ON]
      /\ Parent[d] # NoDevice => Parent[d] \in Registered /\ status[Parent[d]] < SUSPENDING
      /\ phase = "complete" => cur # NoDevice
      /\ astray' = IF phase = "complete" /\ Parent[d] \in Done \cup {cur}
                   THEN astray \union {d} ELSE astray \ {d}
  BY DEF device_pm_add, MutexFree, Done
<1>2. \A x \in Registered : Up'[x] = Up[x] /\ Up'[x] # d
  <2>1. \A x \in Device : x # d => Up'[x] = Up[x]
    BY <1>1 DEF Up
  <2> QED BY <1>0, <2>1
<1>3. /\ Up'[d] # NoDevice => Up'[d] = Parent[d]
      /\ phase = "complete" => Up'[d] \notin Done \cup {cur}
  BY <1>0, <1>1 DEF Up
<1>4. Up'[d] # d
  BY <1>0, <1>1, <1>3
<1>5. Sorted(Up', list') /\ Sorted(Up', local')
  <2>1. Sorted(Up', list) /\ Sorted(Up', local)
    <3>1. /\ \A i \in 1..Len(list) : list[i] \in Registered
          /\ \A i \in 1..Len(local) : local[i] \in Registered
      BY <1>0, SetOfSeq DEF Linked, Todo, Done
    <3> QED BY <1>2, <3>1 DEF OrderInv, Sorted
  <2>2. \A x \in ToSet(list) \cup {d} : Up'[x] # d
    BY <1>0, <1>2, <1>4 DEF Todo
  <2>3. PICK u : u = Up'
    OBVIOUS
  <2>4. Sorted(u, Append(list, d))
    BY <1>0, <2>1, <2>2, <2>3, AddDevice DEF Linked, Todo
  <2> QED BY <1>1, <2>1, <2>3, <2>4
<1>6. Rooted'
  BY <1>0, <1>1, <1>2, <1>3 DEF Rooted
<1>7. UpFirst'
  <2> SUFFICES ASSUME NEW x \in Registered', Up'[x] \in Registered', status'[Up'[x]] >= OFF
               PROVE  status'[x] >= OFF
    BY DEF UpFirst
  <2>1. \A y \in Registered : status'[y] = status[y]
    BY <1>0, <1>1 DEF PMInv, TypeOK
  <2>2. CASE x = d
    <3>1. /\ Parent[d] \in Registered /\ Parent[d] \in Device
          /\ status[Parent[d]] < SUSPENDING /\ status[Parent[d]] >= OFF
      <4>1. Up'[d] # NoDevice
        BY <1>0, <2>2
      <4> QED BY <1>0, <1>1, <1>3, <2>1, <2>2, <4>1
    <3>2. status[Parent[d]] \in 1..6
      BY <3>1 DEF PMInv, TypeOK, ON, OFF_IRQ
    <3> QED BY <3>1, <3>2 DEF SUSPENDING, OFF
  <2>3. CASE x # d
    BY <1>0, <1>2, <2>1, <2>3 DEF OrderInv, UpFirst
  <2> QED BY <2>2, <2>3
<1>8. /\ Forward' => \A x \in Done' : Up'[x] \notin Todo'
      /\ Forward' /\ cur' \in Todo' => Up'[cur'] \notin Todo'
  BY <1>0, <1>1, <1>2 DEF OrderInv, Forward
<1>9. /\ Backward' => \A x \in Todo' : Up'[x] \notin Done'
      /\ Backward' /\ cur' \in Todo' => \A x \in Todo' : Up'[x] # cur'
  BY <1>0, <1>1, <1>2, <1>3 DEF OrderInv, Backward
<1> QED BY <1>5, <1>6, <1>7, <1>8, <1>9 DEF OrderInv

(* A device is removed behind its children. *)
LEMMA RemoveOrder ==
  ASSUME PMInv, OrderInv, NEW d \in Device, device_pm_remove(d)
  PROVE  OrderInv'
<1>0. /\ Linked /\ Registered = Todo \cup Done /\ Registered' = Todo' \cup Done'
      /\ Todo' = Todo \ {d} /\ Done' = Done \ {d} /\ UNCHANGED <<phase, cur, status, astray>>
      /\ \A c \in Todo \cup Done : Parent[c] # d
  BY RemovePairs DEF PMInv, Registered, Todo, Done
<1>1. Up' = Up /\ \A c \in Todo \cup Done : Up[c] # d
  BY <1>0, UpKept, LinkedDevices, DeviceAssumption DEF Up
<1>2. Sorted(Up, list') /\ Sorted(Up, local')
  BY DelList DEF device_pm_remove, OrderInv, PMInv, Linked
<1>3. Rooted'
  BY <1>0, <1>1 DEF OrderInv, Rooted
<1>4. UpFirst'
  BY <1>0, <1>1 DEF OrderInv, UpFirst
<1> QED BY <1>0, <1>1, <1>2, <1>3, <1>4 DEF OrderInv, Forward, Backward

(* Every step keeps the order. *)
LEMMA OrderStep == PMInv /\ OrderInv /\ [Next]_vars => OrderInv'
<1> SUFFICES ASSUME PMInv, OrderInv, [Next]_vars PROVE OrderInv'
  OBVIOUS
<1>1. CASE \E d \in Device : device_pm_add(d) \/ device_pm_remove(d)
  BY <1>1, AddOrder, RemoveOrder
<1>2. CASE dpm_suspend_start
  <2>1. /\ Todo' = Todo /\ Done' = Done /\ Done = {} /\ cur = NoDevice /\ cur \notin Todo
        /\ Registered' = Registered
    BY <1>2, NoneIn, LinkedDevices, DeviceAssumption
    DEF dpm_suspend_start, Todo, Done, Registered, PMInv, Linked
  <2>2. UNCHANGED <<list, local, cur, status>> /\ phase' = "prepare" /\ Up' = Up
    BY <1>2, UpKept DEF dpm_suspend_start
  <2> QED BY <2>1, <2>2 DEF OrderInv, Rooted, UpFirst, Forward, Backward
<1>3. CASE Walk
  BY <1>3, PrepareOrder, SuspendOrder, NoirqOrder, ResumeOrder, CompleteOrder DEF Walk
<1>4. CASE UNCHANGED vars
  <2>1. Todo' = Todo /\ Done' = Done /\ Registered' = Registered /\ Up' = Up
    BY <1>4, UpKept DEF vars, Todo, Done, Registered
  <2> QED BY <1>4, <2>1 DEF vars, OrderInv, Rooted, UpFirst, Forward, Backward
<1> QED BY <1>1, <1>2, <1>3, <1>4 DEF Next

(* Both lists have parents in front of children at any point of the walks. *)
LEMMA OrderAlways == Spec => [](PMInv /\ OrderInv)
<1>1. Init => OrderInv
  <2> SUFFICES ASSUME Init PROVE OrderInv
    OBVIOUS
  <2>1. Todo = {} /\ Done = {} /\ Registered = {} /\ Sorted(Up, list) /\ Sorted(Up, local)
    BY NoneIn DEF Init, Todo, Done, Registered
  <2> QED BY <2>1 DEF Init, OrderInv, Rooted, UpFirst, Forward, Backward
<1> QED BY <1>1, OrderStep, PMInvAlways, PTL DEF Spec

(***************************************************************************)
(* A device is off only while its children are, at any moment of any walk, *)
(* whatever failed in it and whichever devices were registered or removed  *)
(* meanwhile, but for the children that were registered in dpm_complete    *)
(* when it was at their parent or past it.                                 *)
(***************************************************************************)
THEOREM AlwaysChildrenFirst == Spec => []ChildrenFirst
<1>1. PMInv /\ OrderInv => ChildrenFirst
  <2> SUFFICES ASSUME PMInv, OrderInv, NEW d \in Registered \ astray,
                      Parent[d] \in Registered, status[Parent[d]] >= OFF
               PROVE  status[d] >= OFF
    BY DEF ChildrenFirst
  <2>1. d \in Device
    BY LinkedDevices DEF PMInv, Registered, Todo, Done
  <2>2. Up[d] = Parent[d]
    BY <2>1 DEF Up
  <2> QED BY <2>2 DEF OrderInv, UpFirst
<1> QED BY <1>1, OrderAlways, PTL

(***************************************************************************)
(* Between transitions dpm_list is in depth first order, as main.c says it *)
(* is, but for the devices that were registered in dpm_complete when it    *)
(* was at their parent or past it.                                         *)
(***************************************************************************)
THEOREM OrderAlwaysKept == Spec => []OrderKept
<1>1. PMInv /\ OrderInv => OrderKept
  <2> SUFFICES ASSUME PMInv, OrderInv, NEW i \in DOMAIN list, NEW j \in DOMAIN list,
                      Parent[list[i]] = list[j], list[i] \notin astray
               PROVE  j < i
    BY DEF OrderKept
  <2>1. DOMAIN list = 1..Len(list) /\ list[i] \in Device
    BY DEF PMInv, Linked
  <2>2. Up[list[i]] = Parent[list[i]]
    BY <2>1 DEF Up
  <2> QED BY <2>1, <2>2 DEF OrderInv, Sorted
<1> QED BY <1>1, OrderAlways, PTL
-----------------------------------------------------------------------------
(***************************************************************************)
(* The walk of has_wake_lock_locked.                                       *)
(***************************************************************************)

(* What the walk has at each of its places. *)
Walked == [ret : -1 .. MaxTimeout, gone : SUBSET Lock, kept : Seq(Lock)]

(* One more lock: what it does to each field. *)
LEMMA VisitIs ==
  ASSUME NEW fl, NEW lf, NEW l, NEW w \in Walked
  PROVE  /\ w.ret = -1 => Visit(fl, lf, l, w) = w
         /\ w.ret # -1 /\ "AUTO_EXPIRE" \notin fl[l] =>
              Visit(fl, lf, l, w) = [ret |-> -1, gone |-> w.gone, kept |-> w.kept]
         /\ w.ret # -1 /\ "AUTO_EXPIRE" \in fl[l] /\ lf[l] = 0 =>
              Visit(fl, lf, l, w) =
                [ret |-> w.ret, gone |-> w.gone \union {l}, kept |-> list_del(w.kept, l)]
         /\ w.ret # -1 /\ "AUTO_EXPIRE" \in fl[l] /\ lf[l] # 0 =>
              Visit(fl, lf, l, w) =
                [ret |-> IF lf[l] > w.ret THEN lf[l] ELSE w.ret, gone |-> w.gone, kept |-> w.kept]
BY DEF Visit, Walked

(* A visit leaves what a walk has. *)
LEMMA VisitType ==
  ASSUME NEW fl, NEW lf \in [Lock -> 0 .. MaxTimeout], NEW l \in Lock, NEW w \in Walked
  PROVE  Visit(fl, lf, l, w) \in Walked
<1>1. /\ MaxTimeout \in Nat /\ lf[l] \in 0 .. MaxTimeout /\ w.ret \in -1 .. MaxTimeout
      /\ w.gone \in SUBSET Lock /\ w.kept \in Seq(Lock)
  BY ListAssumption DEF Walked
<1>2. list_del(w.kept, l) \in Seq(Lock)
  BY <1>1, DelIsList
<1>3. \A r \in -1 .. MaxTimeout, g \in SUBSET Lock, k \in Seq(Lock) :
        [ret |-> r, gone |-> g, kept |-> k] \in Walked
  BY DEF Walked
<1>4. CASE w.ret = -1
  BY <1>4, VisitIs
<1>5. CASE w.ret # -1 /\ "AUTO_EXPIRE" \notin fl[l]
  <2>1. -1 \in -1 .. MaxTimeout
    BY <1>1
  <2>2. Visit(fl, lf, l, w) = [ret |-> -1, gone |-> w.gone, kept |-> w.kept]
    BY <1>5 DEF Visit, Walked
  <2> QED BY <1>1, <1>3, <2>1, <2>2, Zenon
<1>6. CASE w.ret # -1 /\ "AUTO_EXPIRE" \in fl[l] /\ lf[l] = 0
  <2>1. w.gone \union {l} \in SUBSET Lock
    BY <1>1
  <2>2. Visit(fl, lf, l, w) =
          [ret |-> w.ret, gone |-> w.gone \union {l}, kept |-> list_del(w.kept, l)]
    BY <1>6 DEF Visit, Walked
  <2> QED BY <1>1, <1>2, <1>3, <2>1, <2>2, Zenon
<1>7. CASE w.ret # -1 /\ "AUTO_EXPIRE" \in fl[l] /\ lf[l] # 0
  <2>1. (IF lf[l] > w.ret THEN lf[l] ELSE w.ret) \in -1 .. MaxTimeout
    BY <1>1
  <2>2. Visit(fl, lf, l, w) =
          [ret |-> IF lf[l] > w.ret THEN lf[l] ELSE w.ret, gone |-> w.gone, kept |-> w.kept]
    BY <1>7 DEF Visit, Walked
  <2> QED BY <1>1, <1>3, <2>1, <2>2, Zenon
<1> QED BY <1>4, <1>5, <1>6, <1>7

(* The walk as the loop it is. *)
IsWalk(fl, locks, lf, W) ==
  /\ W[0] = [ret |-> 0, gone |-> {}, kept |-> locks]
  /\ \A n \in 1 .. Len(locks) : W[n] = Visit(fl, lf, locks[n], W[n - 1])

(* The recursive function is that loop. *)
LEMMA WalkIs ==
  ASSUME NEW fl, NEW lf \in [Lock -> 0 .. MaxTimeout], NEW locks \in Seq(Lock),
         NEW W, W = WalkUpTo(fl, locks, lf)
  PROVE  IsWalk(fl, locks, lf, W)
<1> DEFINE N == Len(locks)
           first == [ret |-> 0, gone |-> {}, kept |-> locks]
           Body(f) == [n \in 0 .. N |-> IF n = 0 THEN first ELSE Visit(fl, lf, locks[n], f[n - 1])]
           step == [n \in 1 .. N |-> [v \in Walked |-> Visit(fl, lf, locks[n], v)]]
<1>0. N \in Nat /\ first \in Walked /\ \A n \in 1 .. N : locks[n] \in Lock
  BY ListAssumption DEF Walked
<1>1. step \in [1 .. N -> [Walked -> Walked]]
  <2>1. \A n \in 1 .. N : \A v \in Walked : Visit(fl, lf, locks[n], v) \in Walked
    BY <1>0, VisitType
  <2> QED BY <2>1
<1>2. PICK g \in [0 .. N -> Walked] : g[0] = first /\ \A n \in 1 .. N : g[n] = step[n][g[n - 1]]
  <2> HIDE DEF N, step, first
  <2>1. PICK f : Loop(N, Walked, first, step, f)
    BY <1>0, <1>1, Iterates
  <2> QED BY <2>1 DEF Loop
<1>3. \A n \in 1 .. N : n - 1 \in 0 .. N /\ g[n - 1] \in Walked
  <2> HIDE DEF N
  <2>1. \A n \in 1 .. N : n - 1 \in 0 .. N
    BY <1>0
  <2> QED BY <2>1
<1>4. \A n \in 1 .. N : g[n] = Visit(fl, lf, locks[n], g[n - 1])
  <2> HIDE DEF N
  <2> QED BY <1>2, <1>3
<1>5. g = Body(g)
  <2> HIDE DEF first, N
  <2>1. \A n \in 0 .. N : g[n] = IF n = 0 THEN first ELSE Visit(fl, lf, locks[n], g[n - 1])
    BY <1>0, <1>2, <1>4
  <2> QED BY <2>1
<1>6. WalkUpTo(fl, locks, lf) = CHOOSE f : f = Body(f)
  BY DEF WalkUpTo
<1>7. WalkUpTo(fl, locks, lf) = Body(WalkUpTo(fl, locks, lf))
  <2> HIDE DEF Body
  <2> QED BY <1>5, <1>6
<1>8. \A n \in 0 .. N : WalkUpTo(fl, locks, lf)[n] = Body(WalkUpTo(fl, locks, lf))[n]
  BY <1>7, Zenon
<1> HIDE DEF first
<1>9. \A n \in 0 .. N : W[n] = IF n = 0 THEN first ELSE Visit(fl, lf, locks[n], W[n - 1])
  BY <1>8
<1>10. 0 \in 0 .. N /\ \A n \in 1 .. N : n \in 0 .. N /\ n # 0
  BY <1>0
<1> HIDE DEF N
<1>11. W[0] = first /\ \A n \in 1 .. N : W[n] = Visit(fl, lf, locks[n], W[n - 1])
  BY <1>9, <1>10
<1> QED BY <1>11 DEF N, first, IsWalk

(* The pairs of locks that may follow each other on a list: none without   *)
(* timeout comes behind one with.                                          *)
InFront(fl) == {p \in Lock \X Lock : "AUTO_EXPIRE" \notin fl[p[2]] => "AUTO_EXPIRE" \notin fl[p[1]]}

(* What the walk has found at place n. *)
Found(fl, locks, lf, n, w) ==
  /\ w \in Walked
  /\ IsInjective(w.kept) /\ ToSet(w.kept) = ToSet(locks) \ w.gone
  /\ Ordered(locks, InFront(fl)) => Ordered(w.kept, InFront(fl))
  /\ \A l \in w.gone : (\E i \in 1 .. n : l = locks[i]) /\ "AUTO_EXPIRE" \in fl[l] /\ lf[l] = 0
  /\ w.ret = -1 <=> \E i \in 1 .. n : "AUTO_EXPIRE" \notin fl[locks[i]]
  /\ w.ret # -1 => /\ \A i \in 1 .. n : lf[locks[i]] <= w.ret /\ (lf[locks[i]] = 0 => locks[i] \in w.gone)
                   /\ w.ret = 0 \/ \E i \in 1 .. n : w.ret = lf[locks[i]]
  /\ Ordered(locks, InFront(fl)) /\ w.ret = -1 => w.gone = {}

(* One more lock, and the walk has found what it should that far. *)
LEMMA VisitFinds ==
  ASSUME NEW fl, NEW lf \in [Lock -> 0 .. MaxTimeout], NEW locks \in Seq(Lock), NEW n \in 1 .. Len(locks),
         NEW w, Found(fl, locks, lf, n - 1, w)
  PROVE  Found(fl, locks, lf, n, Visit(fl, lf, locks[n], w))
<1> DEFINE l == locks[n]
           v == Visit(fl, lf, l, w)
<1>0. n \in Nat /\ n >= 1 /\ n <= Len(locks) /\ Len(locks) \in Nat /\ l \in Lock
      /\ lf[l] \in 0 .. MaxTimeout /\ MaxTimeout \in Nat
  BY ListAssumption
<1>1. /\ w \in Walked /\ w.ret \in -1 .. MaxTimeout /\ w.gone \in SUBSET Lock /\ w.kept \in Seq(Lock)
      /\ IsInjective(w.kept) /\ ToSet(w.kept) = ToSet(locks) \ w.gone
  BY DEF Found, Walked
<1>2. \A i \in 1 .. n : i \in 1 .. (n - 1) \/ i = n
  BY <1>0
<1>3. \A i \in 1 .. (n - 1) : i \in 1 .. n /\ i \in 1 .. Len(locks) /\ i <= n
  BY <1>0
<1>4. v \in Walked
  BY <1>0, <1>1, VisitType
<1>5. n \in 1 .. n /\ n \in 1 .. Len(locks)
  BY <1>0
<1>6. Ordered(locks, InFront(fl)) =>
        \A i \in 1 .. (n - 1) : "AUTO_EXPIRE" \notin fl[l] => "AUTO_EXPIRE" \notin fl[locks[i]]
  BY <1>3, <1>5 DEF Ordered, InFront
<1> HIDE DEF l
<1>7. CASE w.ret = -1
  <2>1. v = w
    BY <1>1, <1>7, VisitIs
  <2> HIDE DEF v
  <2> QED BY <1>3, <1>7, <2>1 DEF Found, v, l
<1>8. CASE w.ret # -1 /\ "AUTO_EXPIRE" \notin fl[l]
  <2>1. v.ret = -1 /\ v.gone = w.gone /\ v.kept = w.kept
    <3>1. v = [ret |-> -1, gone |-> w.gone, kept |-> w.kept]
      BY <1>1, <1>8 DEF Visit, Walked
    <3> HIDE DEF v
    <3> QED BY <3>1
  <2> HIDE DEF v
  <2>2. \E i \in 1 .. n : "AUTO_EXPIRE" \notin fl[locks[i]]
    BY <1>5, <1>8 DEF l
  <2>3. \A i \in 1 .. (n - 1) : "AUTO_EXPIRE" \in fl[locks[i]]
    BY <1>8 DEF Found
  <2>4. Ordered(locks, InFront(fl)) => w.gone = {}
    BY <1>6, <1>8, <2>3 DEF Found
  <2>5. \A x \in w.gone : (\E i \in 1 .. n : x = locks[i]) /\ "AUTO_EXPIRE" \in fl[x] /\ lf[x] = 0
    BY <1>3 DEF Found
  <2>6. Ordered(locks, InFront(fl)) => Ordered(w.kept, InFront(fl))
    BY DEF Found
  <2>7. Found(fl, locks, lf, n, v)
    BY <1>1, <1>4, <2>1, <2>2, <2>4, <2>5, <2>6 DEF Found
  <2> QED BY <2>7 DEF v, l
<1>9. CASE w.ret # -1 /\ "AUTO_EXPIRE" \in fl[l] /\ lf[l] = 0
  <2>1. v.ret = w.ret /\ v.gone = w.gone \union {l} /\ v.kept = list_del(w.kept, l)
    <3>1. v = [ret |-> w.ret, gone |-> w.gone \union {l}, kept |-> list_del(w.kept, l)]
      BY <1>1, <1>9 DEF Visit, Walked
    <3> HIDE DEF v
    <3> QED BY <3>1
  <2> HIDE DEF v
  <2>2. /\ IsInjective(v.kept) /\ ToSet(v.kept) = ToSet(w.kept) \ {l}
        /\ Ordered(w.kept, InFront(fl)) => Ordered(v.kept, InFront(fl))
    <3> DEFINE k == w.kept
               R == InFront(fl)
    <3>1. k \in Seq(Lock) /\ IsInjective(k)
      BY <1>1
    <3> HIDE DEF k, R
    <3>2. /\ IsInjective(list_del(k, l)) /\ ToSet(list_del(k, l)) = ToSet(k) \ {l}
          /\ Ordered(k, R) => Ordered(list_del(k, l), R)
      BY <3>1, DelAny
    <3> QED BY <2>1, <3>2 DEF k, R
  <2>3. Ordered(locks, InFront(fl)) => Ordered(v.kept, InFront(fl))
    BY <2>2 DEF Found
  <2>4. ToSet(v.kept) = ToSet(locks) \ v.gone
    BY <1>1, <2>1, <2>2
  <2>5. \A x \in v.gone : (\E i \in 1 .. n : x = locks[i]) /\ "AUTO_EXPIRE" \in fl[x] /\ lf[x] = 0
    BY <1>3, <1>5, <1>9, <2>1 DEF Found, l
  <2>6. \A i \in 1 .. n : "AUTO_EXPIRE" \in fl[locks[i]]
    BY <1>2, <1>9 DEF Found, l
  <2>7. \A i \in 1 .. n : lf[locks[i]] <= v.ret /\ (lf[locks[i]] = 0 => locks[i] \in v.gone)
    <3> SUFFICES ASSUME NEW i \in 1 .. n
                 PROVE  lf[locks[i]] <= v.ret /\ (lf[locks[i]] = 0 => locks[i] \in v.gone)
      OBVIOUS
    <3>1. CASE i \in 1 .. (n - 1)
      BY <1>9, <2>1, <3>1 DEF Found
    <3>2. CASE i = n
      BY <1>0, <1>1, <1>9, <2>1, <3>2 DEF l
    <3> QED BY <1>2, <3>1, <3>2
  <2>8. v.ret = 0 \/ \E i \in 1 .. n : v.ret = lf[locks[i]]
    BY <1>3, <1>9, <2>1 DEF Found
  <2>9. v.ret # -1
    BY <1>9, <2>1
  <2>10. Found(fl, locks, lf, n, v)
    BY <1>4, <2>2, <2>3, <2>4, <2>5, <2>6, <2>7, <2>8, <2>9 DEF Found
  <2> QED BY <2>10 DEF v, l
<1>10. CASE w.ret # -1 /\ "AUTO_EXPIRE" \in fl[l] /\ lf[l] # 0
  <2>1. v.ret = (IF lf[l] > w.ret THEN lf[l] ELSE w.ret) /\ v.gone = w.gone /\ v.kept = w.kept
    <3>1. v = [ret |-> IF lf[l] > w.ret THEN lf[l] ELSE w.ret, gone |-> w.gone, kept |-> w.kept]
      BY <1>1, <1>10 DEF Visit, Walked
    <3> HIDE DEF v
    <3> QED BY <3>1
  <2> HIDE DEF v
  <2>2. /\ w.ret <= v.ret /\ lf[l] <= v.ret /\ v.ret # -1 /\ v.ret \in -1 .. MaxTimeout
        /\ v.ret = w.ret \/ v.ret = lf[l]
    BY <1>0, <1>1, <1>10, <2>1
  <2>3. Ordered(locks, InFront(fl)) => Ordered(v.kept, InFront(fl))
    BY <2>1 DEF Found
  <2>5. \A x \in v.gone : (\E i \in 1 .. n : x = locks[i]) /\ "AUTO_EXPIRE" \in fl[x] /\ lf[x] = 0
    BY <1>3, <2>1 DEF Found
  <2>6. \A i \in 1 .. n : "AUTO_EXPIRE" \in fl[locks[i]]
    BY <1>2, <1>10 DEF Found, l
  <2>7. \A i \in 1 .. n : lf[locks[i]] <= v.ret /\ (lf[locks[i]] = 0 => locks[i] \in v.gone)
    <3> SUFFICES ASSUME NEW i \in 1 .. n
                 PROVE  lf[locks[i]] <= v.ret /\ (lf[locks[i]] = 0 => locks[i] \in v.gone)
      OBVIOUS
    <3>1. CASE i \in 1 .. (n - 1)
      <4>1. lf[locks[i]] <= w.ret /\ (lf[locks[i]] = 0 => locks[i] \in w.gone)
        BY <1>10, <3>1 DEF Found
      <4>2. locks[i] \in Lock /\ lf[locks[i]] \in Int
        BY <1>3, <3>1
      <4> QED BY <1>1, <2>1, <2>2, <4>1, <4>2
    <3>2. CASE i = n
      BY <1>10, <2>2, <3>2 DEF l
    <3> QED BY <1>2, <3>1, <3>2
  <2>8. v.ret = 0 \/ \E i \in 1 .. n : v.ret = lf[locks[i]]
    BY <1>3, <1>5, <1>10, <2>2 DEF Found, l
  <2>10. Found(fl, locks, lf, n, v)
    BY <1>1, <1>4, <2>1, <2>2, <2>3, <2>5, <2>6, <2>7, <2>8 DEF Found
  <2> QED BY <2>10 DEF v, l
<1> QED BY <1>7, <1>8, <1>9, <1>10

(* What has_wake_lock_locked returns and expires: its result w.            *)
Finds(fl, locks, lf, w) ==
  /\ w.ret \in -1 .. MaxTimeout /\ w.gone \subseteq Lock /\ w.kept \in Seq(Lock)
  /\ IsInjective(w.kept) /\ ToSet(w.kept) = ToSet(locks) \ w.gone
  /\ w.gone \subseteq {l \in ToSet(locks) : "AUTO_EXPIRE" \in fl[l] /\ lf[l] = 0}
  /\ w.ret = -1 <=> \E l \in ToSet(locks) : "AUTO_EXPIRE" \notin fl[l]
  /\ w.ret # -1 => /\ w.gone = {l \in ToSet(locks) : lf[l] = 0}
                   /\ w.ret \in {0} \union {lf[l] : l \in ToSet(locks)}
                   /\ \A l \in ToSet(locks) : lf[l] <= w.ret
  /\ Ordered(locks, InFront(fl)) => Ordered(w.kept, InFront(fl)) /\ (w.ret = -1 => w.gone = {})

(* It does so for every list of locks.                                     *)
LEMMA WalkFinds ==
  ASSUME NEW fl, NEW lf \in [Lock -> 0 .. MaxTimeout], NEW locks \in Seq(Lock), IsInjective(locks),
         NEW w, w = has_wake_lock_locked(fl, locks, lf)
  PROVE  Finds(fl, locks, lf, w)
<1> DEFINE N == Len(locks)
           W == WalkUpTo(fl, locks, lf)
           first == [ret |-> 0, gone |-> {}, kept |-> locks]
           S == {n \in 0 .. N : Found(fl, locks, lf, n, W[n])}
<1>1. W[0] = first /\ \A n \in 1 .. N : W[n] = Visit(fl, lf, locks[n], W[n - 1])
  <2> HIDE DEF W, first, N
  <2>1. W = WalkUpTo(fl, locks, lf)
    BY DEF W
  <2>2. IsWalk(fl, locks, lf, W)
    BY <2>1, WalkIs
  <2> QED BY <2>2 DEF first, N, IsWalk
<1>2. N \in Nat /\ ToSet(locks) = {locks[i] : i \in 1 .. N}
  BY SetOfSeq
<1> HIDE DEF W
<1>3. 0 \in S
  <2>1. first \in Walked /\ first.ret = 0 /\ first.gone = {} /\ first.kept = locks
    BY ListAssumption DEF Walked
  <2> HIDE DEF first
  <2>2. Found(fl, locks, lf, 0, first)
    BY <2>1 DEF Found
  <2> QED BY <1>1, <1>2, <2>2
<1>4. \A n \in 1 .. N : n - 1 \in S => n \in S
  <2> SUFFICES ASSUME NEW n \in 1 .. N, n - 1 \in S PROVE n \in S
    OBVIOUS
  <2>1. Found(fl, locks, lf, n, Visit(fl, lf, locks[n], W[n - 1]))
    BY VisitFinds
  <2>2. W[n] = Visit(fl, lf, locks[n], W[n - 1])
    BY <1>1
  <2>3. n \in 0 .. N
    <3> HIDE DEF N
    <3> QED BY <1>2
  <2>4. Found(fl, locks, lf, n, W[n])
    BY <2>1, <2>2, Zenon
  <2> QED BY <2>3, <2>4
<1>5. N \in S
  <2> HIDE DEF S, N
  <2>1. 0 .. N \subseteq S
    BY <1>2, <1>3, <1>4, InductionTo
  <2> QED BY <1>2, <2>1
<1>6. Found(fl, locks, lf, N, w)
  BY <1>5 DEF W, has_wake_lock_locked
<1> HIDE DEF N, S
<1>7. w.ret \in -1 .. MaxTimeout /\ w.gone \subseteq Lock /\ w.kept \in Seq(Lock)
  BY <1>6 DEF Found, Walked
<1>8. w.gone \subseteq {l \in ToSet(locks) : "AUTO_EXPIRE" \in fl[l] /\ lf[l] = 0}
  BY <1>2, <1>6 DEF Found
<1>9. w.ret = -1 <=> \E l \in ToSet(locks) : "AUTO_EXPIRE" \notin fl[l]
  BY <1>2, <1>6 DEF Found
<1>10. ASSUME w.ret # -1
       PROVE  /\ w.gone = {l \in ToSet(locks) : lf[l] = 0}
              /\ w.ret \in {0} \union {lf[l] : l \in ToSet(locks)}
              /\ \A l \in ToSet(locks) : lf[l] <= w.ret
  <2>1. \A l \in ToSet(locks) : lf[l] <= w.ret /\ (lf[l] = 0 => l \in w.gone)
    BY <1>2, <1>6, <1>10 DEF Found
  <2>2. w.ret \in {0} \union {lf[l] : l \in ToSet(locks)}
    BY <1>2, <1>6, <1>10 DEF Found
  <2> QED BY <1>8, <2>1, <2>2
<1>11. /\ IsInjective(w.kept) /\ ToSet(w.kept) = ToSet(locks) \ w.gone
       /\ Ordered(locks, InFront(fl)) => Ordered(w.kept, InFront(fl)) /\ (w.ret = -1 => w.gone = {})
  BY <1>6 DEF Found
<1> QED BY <1>7, <1>8, <1>9, <1>10, <1>11 DEF Finds

(***************************************************************************)
(* The flags.                                                              *)
(***************************************************************************)
FlagSets == [Lock -> SUBSET Flag]

Has(fl, b) == {l \in Lock : b \in fl[l]}

(* What wake_unlock_stat_locked leaves of each flag. *)
LEMMA StatIs ==
  ASSUME NEW fl \in FlagSets, NEW S
  PROVE  /\ wake_unlock_stat_locked(fl, S) \in FlagSets
         /\ \A l \in Lock :
              /\ "INITIALIZED" \in wake_unlock_stat_locked(fl, S)[l] <=> "INITIALIZED" \in fl[l]
              /\ "ACTIVE" \in wake_unlock_stat_locked(fl, S)[l] <=> "ACTIVE" \in fl[l]
              /\ "AUTO_EXPIRE" \in wake_unlock_stat_locked(fl, S)[l] <=> "AUTO_EXPIRE" \in fl[l]
              /\ "PREVENTING_SUSPEND" \in wake_unlock_stat_locked(fl, S)[l] <=>
                   "PREVENTING_SUSPEND" \in fl[l] /\ ~(l \in S /\ "ACTIVE" \in fl[l])
<1> DEFINE r == wake_unlock_stat_locked(fl, S)
<1>1. \A l \in Lock : fl[l] \in SUBSET Flag
  BY DEF FlagSets
<1>2. \A l \in Lock : r[l] = IF l \in S /\ "ACTIVE" \in fl[l]
                             THEN fl[l] \ {"PREVENTING_SUSPEND"} ELSE fl[l]
  BY DEF wake_unlock_stat_locked
<1>3. r \in FlagSets
  BY <1>1 DEF wake_unlock_stat_locked, FlagSets
<1> HIDE DEF r
<1>4. \A l \in Lock :
        /\ "INITIALIZED" \in r[l] <=> "INITIALIZED" \in fl[l]
        /\ "ACTIVE" \in r[l] <=> "ACTIVE" \in fl[l]
        /\ "AUTO_EXPIRE" \in r[l] <=> "AUTO_EXPIRE" \in fl[l]
        /\ "PREVENTING_SUSPEND" \in r[l] <=>
             "PREVENTING_SUSPEND" \in fl[l] /\ ~(l \in S /\ "ACTIVE" \in fl[l])
  BY <1>2
<1> QED BY <1>3, <1>4 DEF r

(* What update_sleep_wait_stats_locked leaves of each flag. *)
LEMMA UpdateIs ==
  ASSUME NEW fl \in FlagSets, NEW locks, NEW lf, NEW done \in BOOLEAN,
         NEW r, r = update_sleep_wait_stats_locked(fl, locks, lf, done)
  PROVE  /\ r \in FlagSets
         /\ \A l \in Lock :
              /\ "INITIALIZED" \in r[l] <=> "INITIALIZED" \in fl[l]
              /\ "ACTIVE" \in r[l] <=> "ACTIVE" \in fl[l]
              /\ "AUTO_EXPIRE" \in r[l] <=> "AUTO_EXPIRE" \in fl[l]
              /\ "PREVENTING_SUSPEND" \in r[l] <=>
                   IF l \in ToSet(locks) THEN ~done /\ ~("AUTO_EXPIRE" \in fl[l] /\ lf[l] = 0)
                                        ELSE "PREVENTING_SUSPEND" \in fl[l]
<1>1. \A l \in Lock : fl[l] \in SUBSET Flag
  BY DEF FlagSets
<1>2. \A l \in Lock :
        r[l] = IF l \notin ToSet(locks) THEN fl[l]
               ELSE IF done \/ ("AUTO_EXPIRE" \in fl[l] /\ lf[l] = 0) THEN fl[l] \ {"PREVENTING_SUSPEND"}
               ELSE fl[l] \union {"PREVENTING_SUSPEND"}
  BY DEF update_sleep_wait_stats_locked, IsExpired
<1>3. r \in FlagSets
  <2>1. \A l \in Lock : r[l] \in SUBSET Flag
    BY <1>1, <1>2 DEF Flag
  <2>2. r = [l \in Lock |-> r[l]]
    BY DEF update_sleep_wait_stats_locked
  <2> QED BY <2>1, <2>2 DEF FlagSets
<1>4. CASE done = TRUE
  BY <1>2, <1>3, <1>4
<1>5. CASE done = FALSE
  <2>1. \A l \in Lock :
          r[l] = IF l \notin ToSet(locks) THEN fl[l]
                 ELSE IF "AUTO_EXPIRE" \in fl[l] /\ lf[l] = 0 THEN fl[l] \ {"PREVENTING_SUSPEND"}
                 ELSE fl[l] \union {"PREVENTING_SUSPEND"}
    BY <1>2, <1>5
  <2>2. ~done
    BY <1>5
  <2> SUFFICES ASSUME NEW l \in Lock
               PROVE  /\ "INITIALIZED" \in r[l] <=> "INITIALIZED" \in fl[l]
                      /\ "ACTIVE" \in r[l] <=> "ACTIVE" \in fl[l]
                      /\ "AUTO_EXPIRE" \in r[l] <=> "AUTO_EXPIRE" \in fl[l]
                      /\ "PREVENTING_SUSPEND" \in r[l] <=>
                           IF l \in ToSet(locks) THEN ~done /\ ~("AUTO_EXPIRE" \in fl[l] /\ lf[l] = 0)
                                                ELSE "PREVENTING_SUSPEND" \in fl[l]
    BY <1>3
  <2>3. CASE l \notin ToSet(locks)
    BY <2>1, <2>3
  <2>4. CASE l \in ToSet(locks) /\ "AUTO_EXPIRE" \in fl[l] /\ lf[l] = 0
    BY <2>1, <2>4
  <2>5. CASE l \in ToSet(locks) /\ ~("AUTO_EXPIRE" \in fl[l] /\ lf[l] = 0)
    <3>1. r[l] = fl[l] \union {"PREVENTING_SUSPEND"}
      BY <2>1, <2>5
    <3> QED BY <2>2, <2>5, <3>1
  <2> QED BY <2>3, <2>4, <2>5
<1> QED BY <1>4, <1>5, Zenon

(* What expire_wake_lock leaves of each flag. *)
LEMMA ExpireIs ==
  ASSUME NEW fl \in FlagSets, NEW S, NEW r, r = expire_wake_lock(fl, S)
  PROVE  /\ r \in FlagSets
         /\ \A l \in Lock :
              /\ "INITIALIZED" \in r[l] <=> "INITIALIZED" \in fl[l]
              /\ "ACTIVE" \in r[l] <=> "ACTIVE" \in fl[l] /\ l \notin S
              /\ "AUTO_EXPIRE" \in r[l] <=> "AUTO_EXPIRE" \in fl[l] /\ l \notin S
              /\ "PREVENTING_SUSPEND" \in r[l] <=>
                   "PREVENTING_SUSPEND" \in fl[l] /\ ~(l \in S /\ "ACTIVE" \in fl[l])
<1> DEFINE st == wake_unlock_stat_locked(fl, S)
<1>1. /\ st \in FlagSets
      /\ \A l \in Lock :
           /\ "INITIALIZED" \in st[l] <=> "INITIALIZED" \in fl[l]
           /\ "ACTIVE" \in st[l] <=> "ACTIVE" \in fl[l]
           /\ "AUTO_EXPIRE" \in st[l] <=> "AUTO_EXPIRE" \in fl[l]
           /\ "PREVENTING_SUSPEND" \in st[l] <=>
                "PREVENTING_SUSPEND" \in fl[l] /\ ~(l \in S /\ "ACTIVE" \in fl[l])
  BY StatIs
<1>2. r = [l \in Lock |-> IF l \in S THEN st[l] \ {"ACTIVE", "AUTO_EXPIRE"} ELSE st[l]]
  BY DEF expire_wake_lock
<1> HIDE DEF st
<1>3. r \in FlagSets
  <2>1. \A l \in Lock : st[l] \in SUBSET Flag
    BY <1>1 DEF FlagSets
  <2> QED BY <1>2, <2>1 DEF FlagSets
<1>4. \A l \in Lock : r[l] = IF l \in S THEN st[l] \ {"ACTIVE", "AUTO_EXPIRE"} ELSE st[l]
  BY <1>2
<1> QED BY <1>1, <1>3, <1>4

(***************************************************************************)
(* The lists.                                                              *)
(***************************************************************************)

(* The locks that belong on the list of type t. *)
OnType(fl, t) == {l \in Lock : Type(l) = t /\ "INITIALIZED" \in fl[l] /\ "ACTIVE" \in fl[l]}

(* s is a list of the locks of S, those without timeout in front. *)
Lists(fl, S, s) ==
  s \in Seq(Lock) /\ IsInjective(s) /\ Ordered(s, InFront(fl)) /\ ToSet(s) = S

(* The order of a list is about WAKE_LOCK_AUTO_EXPIRE of its locks only. *)
LEMMA OrderOf ==
  ASSUME NEW f, NEW g, NEW s \in Seq(Lock),
         \A l \in ToSet(s) : "AUTO_EXPIRE" \in f[l] <=> "AUTO_EXPIRE" \in g[l]
  PROVE  Ordered(s, InFront(f)) => Ordered(s, InFront(g))
<1>1. \A i \in 1 .. Len(s) : s[i] \in Lock /\ s[i] \in ToSet(s)
  BY SetOfSeq
<1> QED BY <1>1 DEF Ordered, InFront

(* A list stays right when WAKE_LOCK_AUTO_EXPIRE of its locks does. *)
LEMMA ListsSame ==
  ASSUME NEW f, NEW g, NEW S, NEW s, Lists(f, S, s),
         \A l \in S : "AUTO_EXPIRE" \in f[l] <=> "AUTO_EXPIRE" \in g[l]
  PROVE  Lists(g, S, s)
BY OrderOf DEF Lists

(* list_del, of a lock that may not be on the list. *)
LEMMA ListsDel ==
  ASSUME NEW f, NEW g, NEW S, NEW s, NEW d, Lists(f, S, s),
         \A l \in S \ {d} : "AUTO_EXPIRE" \in f[l] <=> "AUTO_EXPIRE" \in g[l]
  PROVE  Lists(g, S \ {d}, list_del(s, d))
<1> DEFINE t == list_del(s, d)
<1>1. t \in Seq(Lock) /\ IsInjective(t) /\ ToSet(t) = S \ {d}
  BY DelAny DEF Lists
<1>2. Ordered(t, InFront(f))
  BY DelAny DEF Lists
<1> HIDE DEF t
<1>3. Ordered(t, InFront(g))
  BY <1>1, <1>2, OrderOf
<1> QED BY <1>1, <1>3 DEF Lists, t

(* list_del with list_add_tail, for a lock with timeout, or with list_add. *)
LEMMA ListsAdd ==
  ASSUME NEW f, NEW g, NEW S, NEW s, NEW d \in Lock, Lists(f, S, s),
         \A l \in S \ {d} : "AUTO_EXPIRE" \in f[l] <=> "AUTO_EXPIRE" \in g[l]
  PROVE  /\ "AUTO_EXPIRE" \in g[d] => Lists(g, S \union {d}, Append(list_del(s, d), d))
         /\ "AUTO_EXPIRE" \notin g[d] => Lists(g, S \union {d}, <<d>> \o list_del(s, d))
<1> DEFINE t == list_del(s, d)
           R == InFront(g)
<1>1. Lists(g, S \ {d}, t)
  BY ListsDel
<1>2. /\ t \in Seq(Lock) /\ IsInjective(t) /\ Ordered(t, R) /\ ToSet(t) = S \ {d} /\ d \notin ToSet(t)
      /\ \A x \in ToSet(t) : x \in Lock
  <2>1. t \in Seq(Lock) /\ IsInjective(t) /\ Ordered(t, R) /\ ToSet(t) = S \ {d}
    BY <1>1 DEF Lists
  <2> HIDE DEF t, R
  <2> QED BY <2>1, SetOfSeq
<1>3. /\ <<d, d>> \in R
      /\ "AUTO_EXPIRE" \in g[d] => \A x \in Lock : <<x, d>> \in R
      /\ "AUTO_EXPIRE" \notin g[d] => \A x \in Lock : <<d, x>> \in R
  BY DEF InFront
<1>4. (S \ {d}) \union {d} = S \union {d}
  OBVIOUS
<1> HIDE DEF t, R
<1>5. /\ Append(t, d) \in Seq(Lock) /\ IsInjective(Append(t, d))
      /\ ToSet(Append(t, d)) = ToSet(t) \cup {d}
      /\ <<d>> \o t \in Seq(Lock) /\ IsInjective(<<d>> \o t)
      /\ ToSet(<<d>> \o t) = ToSet(t) \cup {d}
      /\ Ordered(t, R) /\ (\A x \in ToSet(t) : <<x, d>> \in R) => Ordered(Append(t, d), R)
      /\ Ordered(t, R) /\ (\A x \in ToSet(t) : <<d, x>> \in R) => Ordered(<<d>> \o t, R)
  BY <1>2, <1>3, AddAny
<1>6. "AUTO_EXPIRE" \in g[d] => Ordered(Append(t, d), R)
  BY <1>2, <1>3, <1>5
<1>7. "AUTO_EXPIRE" \notin g[d] => Ordered(<<d>> \o t, R)
  BY <1>2, <1>3, <1>5
<1> QED BY <1>2, <1>4, <1>5, <1>6, <1>7 DEF Lists, t, R

(* The walk, in terms of the list as a set: what it returns and expires. *)
Returns(f, S, lf, w) ==
  /\ w.ret \in -1 .. MaxTimeout /\ w.gone \subseteq S
  /\ IF \E l \in S : "AUTO_EXPIRE" \notin f[l]
     THEN w.ret = -1 /\ w.gone = {}
     ELSE /\ w.gone = {l \in S : lf[l] = 0}
          /\ w.ret \in {0} \union {lf[l] : l \in S}
          /\ \A l \in S : lf[l] <= w.ret

(* The list it leaves. *)
LEMMA ListsWalk ==
  ASSUME NEW f, NEW g, NEW S, NEW s, NEW lf \in [Lock -> 0 .. MaxTimeout], Lists(f, S, s),
         NEW w, w = has_wake_lock_locked(f, s, lf),
         \A l \in S \ w.gone : "AUTO_EXPIRE" \in f[l] <=> "AUTO_EXPIRE" \in g[l]
  PROVE  Lists(g, S \ w.gone, w.kept) /\ Returns(f, S, lf, w)
<1>1. s \in Seq(Lock) /\ IsInjective(s) /\ Ordered(s, InFront(f)) /\ ToSet(s) = S
  BY DEF Lists
<1>2. Finds(f, s, lf, w)
  BY <1>1, WalkFinds
<1> DEFINE k == w.kept
<1>3. k \in Seq(Lock) /\ IsInjective(k) /\ Ordered(k, InFront(f)) /\ ToSet(k) = S \ w.gone
  BY <1>1, <1>2 DEF Finds
<1> HIDE DEF k
<1>4. Ordered(k, InFront(g))
  BY <1>3, OrderOf
<1>5. Lists(g, S \ w.gone, w.kept)
  BY <1>3, <1>4 DEF Lists, k
<1>6. Returns(f, S, lf, w)
  BY <1>1, <1>2 DEF Finds, Returns
<1> QED BY <1>5, <1>6

Free(fl) == {l \in Lock : "INITIALIZED" \in fl[l] /\ "ACTIVE" \notin fl[l]}

(* The flags, the lists and the inactive locks fit together. *)
Fits(fl, act, off) ==
  /\ fl \in FlagSets
  /\ act \in [{"SUSPEND", "IDLE"} -> Seq(Lock)]
  /\ \A t \in {"SUSPEND", "IDLE"} : Lists(fl, OnType(fl, t), act[t])
  /\ off = Free(fl)
  /\ main \in Has(fl, "INITIALIZED") \ Has(fl, "AUTO_EXPIRE")
  /\ unknown \in Has(fl, "INITIALIZED")

(* Two sets of flags that differ in WAKE_LOCK_PREVENTING_SUSPEND at most,  *)
(* except on the locks of S.                                               *)
Agree(f, g, S) ==
  \A l \in Lock \ S :
    /\ "INITIALIZED" \in f[l] <=> "INITIALIZED" \in g[l]
    /\ "ACTIVE" \in f[l] <=> "ACTIVE" \in g[l]
    /\ "AUTO_EXPIRE" \in f[l] <=> "AUTO_EXPIRE" \in g[l]

(* The statistics do not matter to the lists. *)
LEMMA FitsSame ==
  ASSUME NEW f, NEW g \in FlagSets, NEW act, NEW off, Fits(f, act, off), Agree(f, g, {})
  PROVE  Fits(g, act, off)
<1>1. \A t \in {"SUSPEND", "IDLE"} : OnType(f, t) = OnType(g, t)
  BY DEF OnType, Agree
<1>2. \A t \in {"SUSPEND", "IDLE"} : Lists(g, OnType(g, t), act[t])
  <2> TAKE t \in {"SUSPEND", "IDLE"}
  <2>1. Lists(f, OnType(f, t), act[t])
    BY DEF Fits
  <2>2. \A l \in OnType(f, t) : "AUTO_EXPIRE" \in f[l] <=> "AUTO_EXPIRE" \in g[l]
    BY DEF OnType, Agree
  <2> QED BY <1>1, <2>1, <2>2, ListsSame
<1>3. Free(f) = Free(g)
  BY DEF Free, Agree
<1>4. main \in Has(g, "INITIALIZED") \ Has(g, "AUTO_EXPIRE") /\ unknown \in Has(g, "INITIALIZED")
  BY DEF Fits, Has, Agree
<1> QED BY <1>2, <1>3, <1>4 DEF Fits

(* One lock changes: the list of the other type does not. *)
LEMMA FitsOne ==
  ASSUME NEW f, NEW g \in FlagSets, NEW act, NEW off, NEW l \in Lock, Fits(f, act, off),
         Agree(f, g, {l}), NEW s, Lists(g, OnType(g, Type(l)), s),
         main \in Has(g, "INITIALIZED") \ Has(g, "AUTO_EXPIRE"), unknown \in Has(g, "INITIALIZED")
  PROVE  Fits(g, [act EXCEPT ![Type(l)] = s], Free(g))
<1> DEFINE b == [act EXCEPT ![Type(l)] = s]
<1>1. Type(l) \in {"SUSPEND", "IDLE"} /\ s \in Seq(Lock) /\ act \in [{"SUSPEND", "IDLE"} -> Seq(Lock)]
  BY DEF Type, Lists, Fits
<1>2. b \in [{"SUSPEND", "IDLE"} -> Seq(Lock)]
  BY <1>1
<1>3. \A t \in {"SUSPEND", "IDLE"} : b[t] = IF t = Type(l) THEN s ELSE act[t]
  BY <1>1
<1> HIDE DEF b
<1>4. ASSUME NEW t \in {"SUSPEND", "IDLE"}, t # Type(l) PROVE Lists(g, OnType(g, t), act[t])
  <2>1. OnType(f, t) = OnType(g, t)
    BY <1>4 DEF OnType, Agree
  <2>2. \A x \in OnType(f, t) : "AUTO_EXPIRE" \in f[x] <=> "AUTO_EXPIRE" \in g[x]
    BY <1>4 DEF OnType, Agree
  <2>3. Lists(f, OnType(f, t), act[t])
    BY DEF Fits
  <2> QED BY <2>1, <2>2, <2>3, ListsSame
<1>5. \A t \in {"SUSPEND", "IDLE"} : Lists(g, OnType(g, t), b[t])
  BY <1>3, <1>4
<1> QED BY <1>2, <1>5 DEF Fits, b

(* The lock goes off its list: wake_unlock and wake_lock_destroy. *)
LEMMA FitsDel ==
  ASSUME NEW f, NEW g \in FlagSets, NEW act, NEW off, NEW l \in Lock, Fits(f, act, off),
         Agree(f, g, {l}), ~("INITIALIZED" \in g[l] /\ "ACTIVE" \in g[l]),
         main \in Has(g, "INITIALIZED") \ Has(g, "AUTO_EXPIRE"), unknown \in Has(g, "INITIALIZED")
  PROVE  Fits(g, [act EXCEPT ![Type(l)] = list_del(@, l)], Free(g))
<1> DEFINE t == Type(l)
           s == list_del(act[t], l)
<1>1. Lists(f, OnType(f, t), act[t])
  BY DEF Fits, Type
<1>2. OnType(g, t) = OnType(f, t) \ {l}
  BY DEF OnType, Agree
<1>3. \A x \in OnType(f, t) \ {l} : "AUTO_EXPIRE" \in f[x] <=> "AUTO_EXPIRE" \in g[x]
  BY DEF OnType, Agree
<1>4. Lists(g, OnType(g, t), s)
  <2> HIDE DEF t
  <2> QED BY <1>1, <1>2, <1>3, ListsDel
<1>5. [act EXCEPT ![Type(l)] = list_del(@, l)] = [act EXCEPT ![Type(l)] = s]
  OBVIOUS
<1> HIDE DEF s
<1>6. Fits(g, [act EXCEPT ![Type(l)] = s], Free(g))
  BY <1>4, FitsOne
<1> QED BY <1>5, <1>6

(* The lock goes to its place on its list: wake_lock_internal. *)
LEMMA FitsAdd ==
  ASSUME NEW f, NEW g \in FlagSets, NEW act, NEW off, NEW l \in Lock, Fits(f, act, off),
         Agree(f, g, {l}), "INITIALIZED" \in g[l], "ACTIVE" \in g[l],
         NEW timed \in BOOLEAN, timed <=> "AUTO_EXPIRE" \in g[l],
         main \in Has(g, "INITIALIZED") \ Has(g, "AUTO_EXPIRE"), unknown \in Has(g, "INITIALIZED"),
         NEW s, s = IF timed THEN Append(list_del(act[Type(l)], l), l)
                             ELSE <<l>> \o list_del(act[Type(l)], l)
  PROVE  Fits(g, [act EXCEPT ![Type(l)] = s], Free(g))
<1> DEFINE t == Type(l)
<1>1. Lists(f, OnType(f, t), act[t])
  BY DEF Fits, Type
<1>2. OnType(g, t) = OnType(f, t) \union {l}
  BY DEF OnType, Agree
<1>3. \A x \in OnType(f, t) \ {l} : "AUTO_EXPIRE" \in f[x] <=> "AUTO_EXPIRE" \in g[x]
  BY DEF OnType, Agree
<1>4. Lists(g, OnType(g, t), s)
  <2> HIDE DEF t
  <2>1. /\ "AUTO_EXPIRE" \in g[l] => Lists(g, OnType(f, t) \union {l}, Append(list_del(act[t], l), l))
        /\ "AUTO_EXPIRE" \notin g[l] => Lists(g, OnType(f, t) \union {l}, <<l>> \o list_del(act[t], l))
    BY <1>1, <1>3, ListsAdd
  <2>2. CASE timed = TRUE
    BY <1>2, <2>1, <2>2 DEF t
  <2>3. CASE timed = FALSE
    BY <1>2, <2>1, <2>3 DEF t
  <2> QED BY <2>2, <2>3
<1> QED BY <1>4, FitsOne

(* The walk expires the locks it finds: expire_wake_lock. *)
LEMMA FitsWalk ==
  ASSUME NEW f, NEW g \in FlagSets, NEW act, NEW off, Fits(f, act, off),
         NEW lf \in [Lock -> 0 .. MaxTimeout], NEW w, w = has_wake_lock_locked(f, act["SUSPEND"], lf),
         Agree(f, g, w.gone),
         \A l \in w.gone : /\ "INITIALIZED" \in f[l] <=> "INITIALIZED" \in g[l]
                           /\ "ACTIVE" \notin g[l] /\ "AUTO_EXPIRE" \notin g[l]
  PROVE  Fits(g, [act EXCEPT !["SUSPEND"] = w.kept], off \union w.gone)
<1> DEFINE S == OnType(f, "SUSPEND")
           b == [act EXCEPT !["SUSPEND"] = w.kept]
<1>1. Lists(f, S, act["SUSPEND"]) /\ S \subseteq Lock /\ Lists(f, OnType(f, "IDLE"), act["IDLE"])
      /\ act \in [{"SUSPEND", "IDLE"} -> Seq(Lock)] /\ off = Free(f)
      /\ main \in Has(f, "INITIALIZED") \ Has(f, "AUTO_EXPIRE") /\ unknown \in Has(f, "INITIALIZED")
  BY DEF Fits, OnType
<1>2. \A l \in Lock \ w.gone : "AUTO_EXPIRE" \in f[l] <=> "AUTO_EXPIRE" \in g[l]
  BY DEF Agree
<1>3. Lists(g, S \ w.gone, w.kept) /\ w.gone \subseteq S
  <2> HIDE DEF S
  <2>1. \A l \in S \ w.gone : "AUTO_EXPIRE" \in f[l] <=> "AUTO_EXPIRE" \in g[l]
    BY <1>1, <1>2
  <2>2. Lists(g, S \ w.gone, w.kept) /\ Returns(f, S, lf, w)
    BY <1>1, <2>1, ListsWalk
  <2> QED BY <2>2 DEF Returns
<1>4. b \in [{"SUSPEND", "IDLE"} -> Seq(Lock)] /\ b["SUSPEND"] = w.kept /\ b["IDLE"] = act["IDLE"]
  BY <1>1, <1>3 DEF Lists
<1> HIDE DEF b
<1>5. OnType(g, "SUSPEND") = S \ w.gone
  BY <1>3 DEF OnType, Agree
<1>6. OnType(g, "IDLE") = OnType(f, "IDLE")
  BY <1>3 DEF OnType, Agree
<1>7. Lists(g, OnType(g, "IDLE"), act["IDLE"])
  <2>1. \A l \in OnType(f, "IDLE") : "AUTO_EXPIRE" \in f[l] <=> "AUTO_EXPIRE" \in g[l]
    BY <1>3, <1>2 DEF OnType
  <2> QED BY <1>1, <1>6, <2>1, ListsSame
<1>8. off \union w.gone = Free(g)
  BY <1>1, <1>3 DEF Free, OnType, Agree
<1>9. main \in Has(g, "INITIALIZED") \ Has(g, "AUTO_EXPIRE") /\ unknown \in Has(g, "INITIALIZED")
  BY <1>1 DEF Has, Agree
<1>10. \A t \in {"SUSPEND", "IDLE"} : Lists(g, OnType(g, t), b[t])
  BY <1>3, <1>4, <1>5, <1>7
<1> QED BY <1>4, <1>8, <1>9, <1>10 DEF Fits, b

(***************************************************************************)
(* The statistics: SleepTimeCharged, of any flags and times.               *)
(***************************************************************************)
Charged(fl, lf) ==
  \A l \in Lock \ IdleLock : "INITIALIZED" \in fl[l] =>
    /\ "PREVENTING_SUSPEND" \in fl[l] => "ACTIVE" \in fl[l] /\ "ACTIVE" \notin fl[main]
    /\ /\ "ACTIVE" \in fl[l]
       /\ "ACTIVE" \notin fl[main]
       /\ ~("AUTO_EXPIRE" \in fl[l] /\ lf[l] = 0)
       => "PREVENTING_SUSPEND" \in fl[l]

ChargedActive(fl) ==
  \A l \in Lock \ IdleLock :
    "INITIALIZED" \in fl[l] /\ "PREVENTING_SUSPEND" \in fl[l] => "ACTIVE" \in fl[l]

(* update_sleep_wait_stats_locked makes them right, for the state that     *)
(* main_wake_lock is in.                                                   *)
LEMMA UpdateCharges ==
  ASSUME NEW f \in FlagSets, ChargedActive(f), NEW locks, ToSet(locks) = OnType(f, "SUSPEND"), NEW lf,
         NEW done \in BOOLEAN, done <=> "ACTIVE" \in f[main],
         NEW r, r = update_sleep_wait_stats_locked(f, locks, lf, done)
  PROVE  r \in FlagSets /\ Agree(f, r, {}) /\ Charged(r, lf)
<1>0. main \in Lock
  BY ListAssumption
<1>1. /\ r \in FlagSets
      /\ \A l \in Lock :
           /\ "INITIALIZED" \in r[l] <=> "INITIALIZED" \in f[l]
           /\ "ACTIVE" \in r[l] <=> "ACTIVE" \in f[l]
           /\ "AUTO_EXPIRE" \in r[l] <=> "AUTO_EXPIRE" \in f[l]
           /\ "PREVENTING_SUSPEND" \in r[l] <=>
                IF l \in ToSet(locks) THEN ~done /\ ~("AUTO_EXPIRE" \in f[l] /\ lf[l] = 0)
                                     ELSE "PREVENTING_SUSPEND" \in f[l]
  BY UpdateIs
<1>2. Agree(f, r, {})
  BY <1>1 DEF Agree
<1>3. Charged(r, lf)
  <2> SUFFICES ASSUME NEW l \in Lock \ IdleLock, "INITIALIZED" \in r[l]
               PROVE  /\ "PREVENTING_SUSPEND" \in r[l] => "ACTIVE" \in r[l] /\ "ACTIVE" \notin r[main]
                      /\ /\ "ACTIVE" \in r[l]
                         /\ "ACTIVE" \notin r[main]
                         /\ ~("AUTO_EXPIRE" \in r[l] /\ lf[l] = 0)
                         => "PREVENTING_SUSPEND" \in r[l]
    BY DEF Charged
  <2>1. l \in ToSet(locks) <=> "ACTIVE" \in f[l]
    BY <1>1 DEF OnType, Type
  <2>2. CASE l \in ToSet(locks)
    BY <1>0, <1>1, <2>1, <2>2
  <2>3. CASE l \notin ToSet(locks)
    BY <1>1, <2>1, <2>3 DEF ChargedActive
  <2> QED BY <2>2, <2>3
<1> QED BY <1>1, <1>2, <1>3

(* expire_wake_lock keeps them right, for locks with a timeout. *)
LEMMA ExpireCharges ==
  ASSUME NEW f \in FlagSets, NEW S, NEW lf, main \notin S, NEW r, r = expire_wake_lock(f, S)
  PROVE  /\ r \in FlagSets /\ Agree(f, r, S)
         /\ \A l \in S \cap Lock : /\ "INITIALIZED" \in f[l] <=> "INITIALIZED" \in r[l]
                                   /\ "ACTIVE" \notin r[l] /\ "AUTO_EXPIRE" \notin r[l]
         /\ Charged(f, lf) => Charged(r, lf)
         /\ ChargedActive(f) => ChargedActive(r)
<1>0. main \in Lock
  BY ListAssumption
<1>1. /\ r \in FlagSets
      /\ \A l \in Lock :
           /\ "INITIALIZED" \in r[l] <=> "INITIALIZED" \in f[l]
           /\ "ACTIVE" \in r[l] <=> "ACTIVE" \in f[l] /\ l \notin S
           /\ "AUTO_EXPIRE" \in r[l] <=> "AUTO_EXPIRE" \in f[l] /\ l \notin S
           /\ "PREVENTING_SUSPEND" \in r[l] <=>
                "PREVENTING_SUSPEND" \in f[l] /\ ~(l \in S /\ "ACTIVE" \in f[l])
  BY ExpireIs
<1>2. Agree(f, r, S)
  BY <1>1 DEF Agree
<1>3. ChargedActive(f) => ChargedActive(r)
  BY <1>1 DEF ChargedActive
<1>4. ASSUME Charged(f, lf) PROVE Charged(r, lf)
  <2> SUFFICES ASSUME NEW l \in Lock \ IdleLock, "INITIALIZED" \in r[l]
               PROVE  /\ "PREVENTING_SUSPEND" \in r[l] => "ACTIVE" \in r[l] /\ "ACTIVE" \notin r[main]
                      /\ /\ "ACTIVE" \in r[l]
                         /\ "ACTIVE" \notin r[main]
                         /\ ~("AUTO_EXPIRE" \in r[l] /\ lf[l] = 0)
                         => "PREVENTING_SUSPEND" \in r[l]
    BY DEF Charged
  <2> QED BY <1>0, <1>1, <1>4 DEF Charged
<1> QED BY <1>1, <1>2, <1>3, <1>4

(***************************************************************************)
(* The inductive invariant.                                                *)
(***************************************************************************)
LInv ==
  /\ Fits(flags, active, inactive)
  /\ Charged(flags, left)
  /\ left \in [Lock -> 0 .. MaxTimeout]
  /\ timer \in -1 .. MaxTimeout
  /\ work \in BOOLEAN

(* What a walk along the list of suspend locks returns. *)
LEMMA WalkReturns ==
  ASSUME NEW f, NEW act, NEW off, Fits(f, act, off), NEW lf \in [Lock -> 0 .. MaxTimeout],
         NEW w, w = has_wake_lock_locked(f, act["SUSPEND"], lf)
  PROVE  Returns(f, OnType(f, "SUSPEND"), lf, w)
<1> DEFINE S == OnType(f, "SUSPEND")
           s == act["SUSPEND"]
<1>1. Lists(f, S, s)
  BY DEF Fits
<1> HIDE DEF S, s
<1>2. w = has_wake_lock_locked(f, s, lf)
  BY DEF s
<1>3. Returns(f, S, lf, w)
  BY <1>1, <1>2, ListsWalk
<1> QED BY <1>3 DEF S

(* The state after a walk along the list of suspend locks. *)
LEMMA WalkStep ==
  ASSUME NEW f, NEW act, NEW off, Fits(f, act, off), NEW lf \in [Lock -> 0 .. MaxTimeout],
         NEW w, w = has_wake_lock_locked(f, act["SUSPEND"], lf),
         NEW r, r = expire_wake_lock(f, w.gone)
  PROVE  /\ Fits(r, [act EXCEPT !["SUSPEND"] = w.kept], off \union w.gone)
         /\ Charged(f, lf) => Charged(r, lf)
         /\ ChargedActive(f) => ChargedActive(r)
         /\ Returns(f, OnType(f, "SUSPEND"), lf, w)
<1> DEFINE S == OnType(f, "SUSPEND")
<1>1. f \in FlagSets /\ S \subseteq Lock /\ main \notin Has(f, "AUTO_EXPIRE")
  BY DEF Fits, OnType
<1>2. Returns(f, S, lf, w)
  BY WalkReturns
<1>3. w.gone \subseteq Lock /\ main \notin w.gone
  <2>1. w.gone \subseteq S /\ (w.gone # {} => \A l \in S : "AUTO_EXPIRE" \in f[l])
    BY <1>2 DEF Returns
  <2>2. main \in Lock
    BY ListAssumption
  <2> QED BY <1>1, <2>1, <2>2 DEF Has
<1>4. /\ r \in FlagSets /\ Agree(f, r, w.gone)
      /\ \A l \in w.gone \cap Lock : /\ "INITIALIZED" \in f[l] <=> "INITIALIZED" \in r[l]
                                     /\ "ACTIVE" \notin r[l] /\ "AUTO_EXPIRE" \notin r[l]
      /\ Charged(f, lf) => Charged(r, lf)
      /\ ChargedActive(f) => ChargedActive(r)
  <2> DEFINE G == w.gone
  <2>1. main \notin G /\ r = expire_wake_lock(f, G)
    BY <1>3
  <2> HIDE DEF G
  <2>2. /\ r \in FlagSets /\ Agree(f, r, G)
        /\ \A l \in G \cap Lock : /\ "INITIALIZED" \in f[l] <=> "INITIALIZED" \in r[l]
                                  /\ "ACTIVE" \notin r[l] /\ "AUTO_EXPIRE" \notin r[l]
        /\ Charged(f, lf) => Charged(r, lf)
        /\ ChargedActive(f) => ChargedActive(r)
    BY <1>1, <2>1, ExpireCharges
  <2> QED BY <2>2 DEF G
<1>5. \A l \in w.gone : /\ "INITIALIZED" \in f[l] <=> "INITIALIZED" \in r[l]
                        /\ "ACTIVE" \notin r[l] /\ "AUTO_EXPIRE" \notin r[l]
  BY <1>3, <1>4
<1>6. Fits(r, [act EXCEPT !["SUSPEND"] = w.kept], off \union w.gone)
  BY <1>4, <1>5, FitsWalk
<1> QED BY <1>2, <1>4, <1>6

(***************************************************************************)
(* wake_lock_internal: its flags, its list and its times, before the walk. *)
(***************************************************************************)
LockFlags(l, ht) ==
  [wake_unlock_stat_locked(flags, IF IsExpired(flags, left, l) THEN {l} ELSE {}) EXCEPT ![l] =
     IF ht THEN @ \union {"ACTIVE", "AUTO_EXPIRE"} ELSE (@ \union {"ACTIVE"}) \ {"AUTO_EXPIRE"}]
LockList(l, ht) ==
  IF ht THEN Append(list_del(active[Type(l)], l), l) ELSE <<l>> \o list_del(active[Type(l)], l)
LockTimes(l, timeout) == [left EXCEPT ![l] = timeout]
LockStats(l, timeout, ht) ==
  LET fl == LockFlags(l, ht) IN
  IF l = main THEN update_sleep_wait_stats_locked(fl, LockList(l, ht), LockTimes(l, timeout), TRUE)
  ELSE IF "ACTIVE" \notin fl[main]
  THEN update_sleep_wait_stats_locked(fl, LockList(l, ht), LockTimes(l, timeout), FALSE)
  ELSE fl

(* The action in these terms. *)
LEMMA LockIs ==
  ASSUME NEW l, NEW timeout, NEW ht, wake_lock_internal(l, timeout, ht)
  PROVE  /\ "INITIALIZED" \in flags[l]
         /\ left' = LockTimes(l, timeout)
         /\ \/ /\ Type(l) = "IDLE"
               /\ flags' = LockFlags(l, ht)
               /\ active' = [active EXCEPT !["IDLE"] = LockList(l, ht)]
               /\ inactive' = inactive \ {l}
               /\ UNCHANGED <<timer, work, event>>
            \/ /\ Type(l) = "SUSPEND"
               /\ \E w : /\ w = IF ht THEN has_wake_lock_locked(LockStats(l, timeout, ht), LockList(l, ht),
                                                                LockTimes(l, timeout))
                                ELSE [ret |-> -1, gone |-> {}, kept |-> LockList(l, ht)]
                         /\ SetLists(LockStats(l, timeout, ht), w, inactive \ {l})
                         /\ Rearm(w.ret)
               /\ event' = TRUE
BY Zenon DEF wake_lock_internal, LockFlags, LockList, LockTimes, LockStats

(* The flags of the lock itself, and of the others. *)
LEMMA LockFlagsAre ==
  ASSUME LInv, NEW l \in Lock, NEW ht \in BOOLEAN, "INITIALIZED" \in flags[l]
  PROVE  /\ LockFlags(l, ht) \in FlagSets /\ Agree(flags, LockFlags(l, ht), {l})
         /\ \A x \in Lock : "PREVENTING_SUSPEND" \in LockFlags(l, ht)[x] => "PREVENTING_SUSPEND" \in flags[x]
         /\ \A x \in Lock \ {l} :
              "PREVENTING_SUSPEND" \in flags[x] => "PREVENTING_SUSPEND" \in LockFlags(l, ht)[x]
         /\ "INITIALIZED" \in LockFlags(l, ht)[l] /\ "ACTIVE" \in LockFlags(l, ht)[l]
         /\ "AUTO_EXPIRE" \in LockFlags(l, ht)[l] <=> ht
<1> DEFINE S == IF IsExpired(flags, left, l) THEN {l} ELSE {}
           st == wake_unlock_stat_locked(flags, S)
           g == LockFlags(l, ht)
<1>1. flags \in FlagSets /\ \A x \in S : x = l
  BY DEF LInv, Fits
<1> HIDE DEF S
<1>2. /\ st \in FlagSets
      /\ \A x \in Lock :
           /\ "INITIALIZED" \in st[x] <=> "INITIALIZED" \in flags[x]
           /\ "ACTIVE" \in st[x] <=> "ACTIVE" \in flags[x]
           /\ "AUTO_EXPIRE" \in st[x] <=> "AUTO_EXPIRE" \in flags[x]
           /\ "PREVENTING_SUSPEND" \in st[x] <=>
                "PREVENTING_SUSPEND" \in flags[x] /\ ~(x \in S /\ "ACTIVE" \in flags[x])
  BY <1>1, StatIs
<1>3. g = [st EXCEPT ![l] = IF ht THEN @ \union {"ACTIVE", "AUTO_EXPIRE"}
                            ELSE (@ \union {"ACTIVE"}) \ {"AUTO_EXPIRE"}]
  BY DEF LockFlags, S
<1> HIDE DEF st, g
<1>4. /\ g[l] = IF ht THEN st[l] \union {"ACTIVE", "AUTO_EXPIRE"}
                ELSE (st[l] \union {"ACTIVE"}) \ {"AUTO_EXPIRE"}
      /\ \A x \in Lock \ {l} : g[x] = st[x]
  BY <1>2, <1>3 DEF FlagSets
<1>5. g \in FlagSets
  <2>1. st[l] \in SUBSET Flag
    BY <1>2 DEF FlagSets
  <2>2. g[l] \in SUBSET Flag
    BY <1>4, <2>1 DEF Flag
  <2>3. g = [st EXCEPT ![l] = g[l]]
    BY <1>2, <1>3 DEF FlagSets
  <2> QED BY <1>2, <2>2, <2>3 DEF FlagSets
<1>6. /\ "INITIALIZED" \in g[l] /\ "ACTIVE" \in g[l] /\ ("AUTO_EXPIRE" \in g[l] <=> ht)
      /\ "PREVENTING_SUSPEND" \in g[l] => "PREVENTING_SUSPEND" \in flags[l]
  <2>1. CASE ht = TRUE
    BY <1>2, <1>4, <2>1
  <2>2. CASE ht = FALSE
    BY <1>2, <1>4, <2>2
  <2> QED BY <2>1, <2>2
<1>7. Agree(flags, g, {l})
  BY <1>2, <1>4 DEF Agree
<1>8. /\ \A x \in Lock : "PREVENTING_SUSPEND" \in g[x] => "PREVENTING_SUSPEND" \in flags[x]
      /\ \A x \in Lock \ {l} : "PREVENTING_SUSPEND" \in flags[x] => "PREVENTING_SUSPEND" \in g[x]
  BY <1>1, <1>2, <1>4, <1>6
<1> QED BY <1>5, <1>6, <1>7, <1>8 DEF g

(* The state before the walk: on its list, with the statistics brought up  *)
(* to date.                                                                *)
LEMMA LockFits ==
  ASSUME LInv, NEW l \in Lock, NEW ht \in BOOLEAN, NEW timeout \in 0 .. MaxTimeout,
         "INITIALIZED" \in flags[l], l = main => ~ht
  PROVE  /\ LockTimes(l, timeout) \in [Lock -> 0 .. MaxTimeout]
         /\ Fits(LockFlags(l, ht), [active EXCEPT ![Type(l)] = LockList(l, ht)], inactive \ {l})
         /\ Type(l) = "IDLE" => Charged(LockFlags(l, ht), LockTimes(l, timeout))
         /\ Type(l) = "SUSPEND" =>
              /\ Agree(LockFlags(l, ht), LockStats(l, timeout, ht), {})
              /\ Fits(LockStats(l, timeout, ht), [active EXCEPT ![Type(l)] = LockList(l, ht)],
                      inactive \ {l})
              /\ Charged(LockStats(l, timeout, ht), LockTimes(l, timeout))
<1> DEFINE g == LockFlags(l, ht)
           s == LockList(l, ht)
           lf == LockTimes(l, timeout)
           st == LockStats(l, timeout, ht)
           b == [active EXCEPT ![Type(l)] = s]
<1>0. main \in Lock /\ main \notin IdleLock /\ unknown \in Lock
  BY ListAssumption
<1>1. Fits(flags, active, inactive) /\ Charged(flags, left) /\ left \in [Lock -> 0 .. MaxTimeout]
  BY DEF LInv
<1>2. lf \in [Lock -> 0 .. MaxTimeout] /\ \A x \in Lock \ {l} : lf[x] = left[x]
  BY <1>1 DEF LockTimes
<1>3. /\ g \in FlagSets /\ Agree(flags, g, {l})
      /\ \A x \in Lock : "PREVENTING_SUSPEND" \in g[x] => "PREVENTING_SUSPEND" \in flags[x]
      /\ \A x \in Lock \ {l} : "PREVENTING_SUSPEND" \in flags[x] => "PREVENTING_SUSPEND" \in g[x]
      /\ "INITIALIZED" \in g[l] /\ "ACTIVE" \in g[l] /\ ("AUTO_EXPIRE" \in g[l] <=> ht)
  BY LockFlagsAre
<1>4. s = IF ht THEN Append(list_del(active[Type(l)], l), l) ELSE <<l>> \o list_del(active[Type(l)], l)
  BY DEF LockList
<1> HIDE DEF g, s, lf, st
<1>5. main \in Has(g, "INITIALIZED") \ Has(g, "AUTO_EXPIRE") /\ unknown \in Has(g, "INITIALIZED")
  BY <1>0, <1>1, <1>3 DEF Fits, Has, Agree
<1>6. Free(g) = inactive \ {l}
  BY <1>1, <1>3 DEF Fits, Free, Agree
<1>7. Fits(g, b, inactive \ {l})
  <2>1. Fits(g, b, Free(g))
    BY <1>1, <1>3, <1>4, <1>5, FitsAdd
  <2> QED BY <1>6, <2>1
<1>8. ASSUME Type(l) = "IDLE" PROVE Charged(g, lf)
  <2>1. l \in IdleLock
    BY <1>8 DEF Type
  <2>2. \A x \in Lock \ IdleLock :
          /\ "INITIALIZED" \in g[x] <=> "INITIALIZED" \in flags[x]
          /\ "ACTIVE" \in g[x] <=> "ACTIVE" \in flags[x]
          /\ "AUTO_EXPIRE" \in g[x] <=> "AUTO_EXPIRE" \in flags[x]
          /\ "PREVENTING_SUSPEND" \in g[x] <=> "PREVENTING_SUSPEND" \in flags[x]
          /\ lf[x] = left[x]
    BY <1>2, <1>3, <2>1 DEF Agree
  <2> QED BY <1>0, <1>1, <2>2 DEF Charged
<1>9. ASSUME Type(l) = "SUSPEND"
      PROVE  Agree(g, st, {}) /\ Fits(st, b, inactive \ {l}) /\ Charged(st, lf)
  <2>1. ToSet(s) = OnType(g, "SUSPEND")
    <3>1. b["SUSPEND"] = s
      BY <1>1, <1>9 DEF Fits
    <3>2. Lists(g, OnType(g, "SUSPEND"), b["SUSPEND"])
      BY <1>7 DEF Fits
    <3> QED BY <3>1, <3>2 DEF Lists
  <2>2. ChargedActive(g)
    BY <1>1, <1>3 DEF ChargedActive, Charged, Agree
  <2>3. st \in FlagSets /\ Agree(g, st, {}) /\ Charged(st, lf)
    <3>1. CASE l = main
      <4>1. st = update_sleep_wait_stats_locked(g, s, lf, TRUE)
        BY <3>1 DEF LockStats, st, g, s, lf
      <4> QED BY <1>3, <2>1, <2>2, <3>1, <4>1, UpdateCharges
    <3>2. CASE l # main /\ "ACTIVE" \notin g[main]
      <4>1. st = update_sleep_wait_stats_locked(g, s, lf, FALSE)
        BY <3>2 DEF LockStats, st, g, s, lf
      <4> QED BY <1>3, <2>1, <2>2, <3>2, <4>1, UpdateCharges
    <3>3. CASE l # main /\ "ACTIVE" \in g[main]
      <4>1. st = g
        BY <3>3 DEF LockStats, st, g, s, lf
      <4>2. "ACTIVE" \in flags[main]
        BY <1>0, <1>3, <3>3 DEF Agree
      <4>3. \A x \in Lock : "INITIALIZED" \in g[x] => "INITIALIZED" \in flags[x]
        BY <1>3 DEF Agree
      <4>4. Charged(g, lf)
        BY <1>1, <1>3, <3>3, <4>2, <4>3 DEF Charged
      <4>5. Agree(g, g, {})
        BY DEF Agree
      <4> QED BY <1>3, <4>1, <4>4, <4>5
    <3> QED BY <3>1, <3>2, <3>3
  <2>4. Fits(st, b, inactive \ {l})
    BY <1>7, <2>3, FitsSame
  <2> QED BY <2>3, <2>4
<1> QED BY <1>2, <1>7, <1>8, <1>9 DEF g, s, lf, st

(* wake_lock_internal keeps the invariant. *)
LEMMA LockStep ==
  ASSUME LInv, NEW l \in Lock, NEW ht \in BOOLEAN, NEW timeout \in 0 .. MaxTimeout,
         l = main => ~ht, wake_lock_internal(l, timeout, ht)
  PROVE  LInv'
<1> DEFINE g == LockFlags(l, ht)
           s == LockList(l, ht)
           lf == LockTimes(l, timeout)
           st == LockStats(l, timeout, ht)
           b == [active EXCEPT ![Type(l)] = s]
<1>1. "INITIALIZED" \in flags[l] /\ left' = lf
  BY LockIs
<1>2. /\ lf \in [Lock -> 0 .. MaxTimeout]
      /\ Fits(g, b, inactive \ {l})
      /\ Type(l) = "IDLE" => Charged(g, lf)
      /\ Type(l) = "SUSPEND" => Fits(st, b, inactive \ {l}) /\ Charged(st, lf)
  BY <1>1, LockFits
<1>3. active \in [{"SUSPEND", "IDLE"} -> Seq(Lock)]
  BY DEF LInv, Fits
<1> HIDE DEF g, s, lf, st
<1>4. CASE Type(l) = "IDLE"
  <2>1. flags' = g /\ active' = b /\ inactive' = inactive \ {l} /\ UNCHANGED <<timer, work, event>>
    BY <1>4, LockIs DEF g, s
  <2> QED BY <1>1, <1>2, <1>4, <2>1 DEF LInv
<1>5. CASE Type(l) = "SUSPEND"
  <2>1. PICK w : /\ w = IF ht THEN has_wake_lock_locked(st, s, lf)
                        ELSE [ret |-> -1, gone |-> {}, kept |-> s]
                 /\ SetLists(st, w, inactive \ {l})
                 /\ Rearm(w.ret)
    BY <1>5, LockIs DEF g, s, lf, st
  <2>2. b["SUSPEND"] = s /\ \A k : [b EXCEPT !["SUSPEND"] = k] = [active EXCEPT !["SUSPEND"] = k]
    BY <1>3, <1>5
  <2>3. /\ flags' = expire_wake_lock(st, w.gone)
        /\ active' = [b EXCEPT !["SUSPEND"] = w.kept]
        /\ inactive' = (inactive \ {l}) \union w.gone
    BY <2>1, <2>2 DEF SetLists
  <2> HIDE DEF b
  <2>4. Fits(flags', active', inactive') /\ Charged(flags', lf) /\ w.ret \in -1 .. MaxTimeout
    <3>1. CASE ht = TRUE
      <4>1. w = has_wake_lock_locked(st, b["SUSPEND"], lf)
        BY <2>1, <2>2, <3>1
      <4>2. Fits(st, b, inactive \ {l}) /\ Charged(st, lf)
        BY <1>2, <1>5
      <4>3. PICK r : r = expire_wake_lock(st, w.gone)
        OBVIOUS
      <4>4. /\ Fits(r, [b EXCEPT !["SUSPEND"] = w.kept], (inactive \ {l}) \union w.gone)
            /\ Charged(r, lf)
            /\ Returns(st, OnType(st, "SUSPEND"), lf, w)
        BY <1>2, <4>1, <4>2, <4>3, WalkStep
      <4> QED BY <2>3, <4>3, <4>4 DEF Returns
    <3>2. CASE ht = FALSE
      <4>1. w.ret = -1 /\ w.gone = {} /\ w.kept = s
        BY <2>1, <3>2
      <4>2. flags' = expire_wake_lock(st, {}) /\ inactive' = inactive \ {l}
        BY <2>3, <4>1
      <4>3. active' = b
        <5>1. active' = [active EXCEPT !["SUSPEND"] = s]
          BY <2>2, <2>3, <4>1
        <5> QED BY <1>5, <5>1 DEF b
      <4>4. flags' \in FlagSets /\ Agree(st, flags', {}) /\ Charged(flags', lf)
        <5>1. PICK r : r = expire_wake_lock(st, {})
          OBVIOUS
        <5>2. st \in FlagSets /\ Charged(st, lf)
          BY <1>2, <1>5 DEF Fits
        <5>3. r \in FlagSets /\ Agree(st, r, {}) /\ Charged(r, lf)
          BY <5>1, <5>2, ExpireCharges
        <5> QED BY <4>2, <5>1, <5>3
      <4>5. Fits(flags', b, inactive \ {l})
        BY <1>2, <1>5, <4>4, FitsSame
      <4>6. -1 \in -1 .. MaxTimeout
        BY ListAssumption
      <4> QED BY <4>1, <4>2, <4>3, <4>4, <4>5, <4>6
    <3> QED BY <3>1, <3>2
  <2>5. timer' \in -1 .. MaxTimeout /\ work' \in BOOLEAN
    BY <2>1, <2>4, ListAssumption DEF Rearm
  <2> QED BY <1>1, <1>2, <2>4, <2>5 DEF LInv
<1> QED BY <1>4, <1>5 DEF Type

(***************************************************************************)
(* wake_unlock: its flags and its list, before the walk.                   *)
(***************************************************************************)
UnlockFlags(l) ==
  [wake_unlock_stat_locked(flags, {l}) EXCEPT ![l] = @ \ {"ACTIVE", "AUTO_EXPIRE"}]

(* The action in these terms. *)
LEMMA UnlockIs ==
  ASSUME NEW l, wake_unlock(l)
  PROVE  /\ "INITIALIZED" \in flags[l]
         /\ UNCHANGED <<left, susp, event>>
         /\ \/ /\ Type(l) = "IDLE"
               /\ flags' = UnlockFlags(l)
               /\ active' = [active EXCEPT !["IDLE"] = list_del(active[Type(l)], l)]
               /\ inactive' = inactive \union {l}
               /\ UNCHANGED <<timer, work>>
            \/ /\ Type(l) = "SUSPEND"
               /\ \E w, e :
                    /\ w = has_wake_lock_locked(UnlockFlags(l), list_del(active[Type(l)], l), left)
                    /\ e = expire_wake_lock(UnlockFlags(l), w.gone)
                    /\ Rearm(w.ret)
                    /\ flags' = IF l = main THEN update_sleep_wait_stats_locked(e, w.kept, left, FALSE)
                                ELSE e
                    /\ active' = [active EXCEPT !["SUSPEND"] = w.kept]
                    /\ inactive' = (inactive \union {l}) \union w.gone
BY Zenon DEF wake_unlock, UnlockFlags

(* The state before the walk. *)
LEMMA UnlockFits ==
  ASSUME LInv, NEW l \in Lock, "INITIALIZED" \in flags[l]
  PROVE  /\ UnlockFlags(l) \in FlagSets /\ Agree(flags, UnlockFlags(l), {l})
         /\ "INITIALIZED" \in UnlockFlags(l)[l]
         /\ "ACTIVE" \notin UnlockFlags(l)[l] /\ "AUTO_EXPIRE" \notin UnlockFlags(l)[l]
         /\ Fits(UnlockFlags(l), [active EXCEPT ![Type(l)] = list_del(@, l)], inactive \union {l})
         /\ ChargedActive(UnlockFlags(l))
         /\ l # main => Charged(UnlockFlags(l), left)
<1> DEFINE g == UnlockFlags(l)
           st == wake_unlock_stat_locked(flags, {l})
<1>0. main \in Lock /\ main \notin IdleLock /\ unknown \in Lock
  BY ListAssumption
<1>1. Fits(flags, active, inactive) /\ Charged(flags, left) /\ flags \in FlagSets
  BY DEF LInv, Fits
<1>2. /\ st \in FlagSets
      /\ \A x \in Lock :
           /\ "INITIALIZED" \in st[x] <=> "INITIALIZED" \in flags[x]
           /\ "ACTIVE" \in st[x] <=> "ACTIVE" \in flags[x]
           /\ "AUTO_EXPIRE" \in st[x] <=> "AUTO_EXPIRE" \in flags[x]
           /\ "PREVENTING_SUSPEND" \in st[x] <=>
                "PREVENTING_SUSPEND" \in flags[x] /\ ~(x \in {l} /\ "ACTIVE" \in flags[x])
  BY <1>1, StatIs
<1>3. g = [st EXCEPT ![l] = @ \ {"ACTIVE", "AUTO_EXPIRE"}]
  BY DEF UnlockFlags
<1> HIDE DEF st, g
<1>4. g \in FlagSets /\ g[l] = st[l] \ {"ACTIVE", "AUTO_EXPIRE"} /\ \A x \in Lock \ {l} : g[x] = st[x]
  <2>1. st[l] \in SUBSET Flag
    BY <1>2 DEF FlagSets
  <2> QED BY <1>2, <1>3, <2>1 DEF FlagSets
<1>5. "INITIALIZED" \in g[l] /\ "ACTIVE" \notin g[l] /\ "AUTO_EXPIRE" \notin g[l]
  BY <1>2, <1>4
<1>6. Agree(flags, g, {l})
  BY <1>2, <1>4 DEF Agree
<1>7. /\ \A x \in Lock \ {l} : "PREVENTING_SUSPEND" \in g[x] <=> "PREVENTING_SUSPEND" \in flags[x]
      /\ "PREVENTING_SUSPEND" \in g[l] => "PREVENTING_SUSPEND" \in flags[l] /\ "ACTIVE" \notin flags[l]
  BY <1>2, <1>4
<1>8. main \in Has(g, "INITIALIZED") \ Has(g, "AUTO_EXPIRE") /\ unknown \in Has(g, "INITIALIZED")
  BY <1>0, <1>1, <1>5, <1>6 DEF Fits, Has, Agree
<1>9. Free(g) = inactive \union {l}
  BY <1>1, <1>5, <1>6 DEF Fits, Free, Agree
<1>10. Fits(g, [active EXCEPT ![Type(l)] = list_del(@, l)], inactive \union {l})
  <2>1. Fits(g, [active EXCEPT ![Type(l)] = list_del(@, l)], Free(g))
    BY <1>1, <1>4, <1>5, <1>6, <1>8, FitsDel
  <2> QED BY <1>9, <2>1
<1>11. l \notin IdleLock => "PREVENTING_SUSPEND" \notin g[l]
  BY <1>1, <1>7 DEF Charged
<1>12. ChargedActive(g)
  BY <1>1, <1>6, <1>7, <1>11 DEF ChargedActive, Charged, Agree
<1>13. ASSUME l # main PROVE Charged(g, left)
  <2>1. "ACTIVE" \in g[main] <=> "ACTIVE" \in flags[main]
    BY <1>0, <1>6, <1>13 DEF Agree
  <2> SUFFICES ASSUME NEW x \in Lock \ IdleLock, "INITIALIZED" \in g[x]
               PROVE  /\ "PREVENTING_SUSPEND" \in g[x] => "ACTIVE" \in g[x] /\ "ACTIVE" \notin g[main]
                      /\ /\ "ACTIVE" \in g[x]
                         /\ "ACTIVE" \notin g[main]
                         /\ ~("AUTO_EXPIRE" \in g[x] /\ left[x] = 0)
                         => "PREVENTING_SUSPEND" \in g[x]
    BY DEF Charged
  <2>2. CASE x = l
    BY <1>5, <1>11, <2>2
  <2>3. CASE x # l
    BY <1>1, <1>6, <1>7, <2>1, <2>3 DEF Charged, Agree
  <2> QED BY <2>2, <2>3
<1> QED BY <1>4, <1>5, <1>6, <1>10, <1>12, <1>13 DEF g

(* wake_unlock keeps the invariant. *)
LEMMA UnlockStep ==
  ASSUME LInv, NEW l \in Lock, wake_unlock(l)
  PROVE  LInv'
<1> DEFINE g == UnlockFlags(l)
           s == list_del(active[Type(l)], l)
           b == [active EXCEPT ![Type(l)] = list_del(@, l)]
<1>1. "INITIALIZED" \in flags[l] /\ UNCHANGED <<left, susp, event>>
  BY UnlockIs
<1>2. /\ g \in FlagSets /\ "ACTIVE" \notin g[l]
      /\ Fits(g, b, inactive \union {l}) /\ ChargedActive(g) /\ (l # main => Charged(g, left))
  BY <1>1, UnlockFits
<1>3. active \in [{"SUSPEND", "IDLE"} -> Seq(Lock)] /\ left \in [Lock -> 0 .. MaxTimeout]
      /\ main \notin IdleLock
  BY ListAssumption DEF LInv, Fits
<1>4. b = [active EXCEPT ![Type(l)] = s]
  OBVIOUS
<1> HIDE DEF g, b
<1>5. CASE Type(l) = "IDLE"
  <2>1. flags' = g /\ active' = [active EXCEPT !["IDLE"] = s] /\ inactive' = inactive \union {l}
        /\ UNCHANGED <<timer, work>>
    BY <1>5, UnlockIs DEF g
  <2>2. l # main
    BY <1>3, <1>5 DEF Type
  <2> QED BY <1>1, <1>2, <1>4, <1>5, <2>1, <2>2 DEF LInv
<1>6. CASE Type(l) = "SUSPEND"
  <2>1. PICK w, e :
          /\ w = has_wake_lock_locked(g, s, left)
          /\ e = expire_wake_lock(g, w.gone)
          /\ Rearm(w.ret)
          /\ flags' = IF l = main THEN update_sleep_wait_stats_locked(e, w.kept, left, FALSE) ELSE e
          /\ active' = [active EXCEPT !["SUSPEND"] = w.kept]
          /\ inactive' = (inactive \union {l}) \union w.gone
    BY <1>6, UnlockIs DEF g
  <2>2. b["SUSPEND"] = s /\ \A k : [b EXCEPT !["SUSPEND"] = k] = [active EXCEPT !["SUSPEND"] = k]
    BY <1>3, <1>4, <1>6
  <2> HIDE DEF s
  <2>3. /\ Fits(e, active', inactive')
        /\ l # main => Charged(e, left)
        /\ ChargedActive(e)
        /\ Returns(g, OnType(g, "SUSPEND"), left, w)
    <3>1. w = has_wake_lock_locked(g, b["SUSPEND"], left)
      BY <2>1, <2>2
    <3>2. /\ Fits(e, [b EXCEPT !["SUSPEND"] = w.kept], (inactive \union {l}) \union w.gone)
          /\ Charged(g, left) => Charged(e, left)
          /\ ChargedActive(g) => ChargedActive(e)
          /\ Returns(g, OnType(g, "SUSPEND"), left, w)
      <4> DEFINE off == inactive \union {l}
      <4>1. Fits(g, b, off) /\ left \in [Lock -> 0 .. MaxTimeout] /\ e = expire_wake_lock(g, w.gone)
        BY <1>2, <1>3, <2>1
      <4> HIDE DEF off
      <4>2. /\ Fits(e, [b EXCEPT !["SUSPEND"] = w.kept], off \union w.gone)
            /\ Charged(g, left) => Charged(e, left)
            /\ ChargedActive(g) => ChargedActive(e)
            /\ Returns(g, OnType(g, "SUSPEND"), left, w)
        BY <3>1, <4>1, WalkStep
      <4> QED BY <4>2 DEF off
    <3> QED BY <1>2, <2>1, <2>2, <3>2
  <2>4. Fits(flags', active', inactive') /\ Charged(flags', left)
    <3>1. CASE l # main
      BY <2>1, <2>3, <3>1
    <3>2. CASE l = main
      <4>1. flags' = update_sleep_wait_stats_locked(e, w.kept, left, FALSE)
        BY <2>1, <3>2
      <4>2. e \in FlagSets /\ ToSet(w.kept) = OnType(e, "SUSPEND")
        <5>1. active'["SUSPEND"] = w.kept
          BY <1>3, <2>1
        <5>2. Lists(e, OnType(e, "SUSPEND"), active'["SUSPEND"]) /\ e \in FlagSets
          BY <2>3 DEF Fits
        <5> QED BY <5>1, <5>2 DEF Lists
      <4>3. "ACTIVE" \notin e[main]
        <5>1. main \in Lock
          BY ListAssumption
        <5>2. \A x \in Lock : "ACTIVE" \in e[x] => "ACTIVE" \in g[x]
          BY <1>2, <2>1, ExpireIs
        <5> QED BY <1>2, <3>2, <5>1, <5>2
      <4>4. PICK k, r : k = w.kept /\ r = update_sleep_wait_stats_locked(e, k, left, FALSE)
        OBVIOUS
      <4>5. r \in FlagSets /\ Agree(e, r, {}) /\ Charged(r, left)
        BY <2>3, <4>2, <4>3, <4>4, UpdateCharges
      <4>6. flags' \in FlagSets /\ Agree(e, flags', {}) /\ Charged(flags', left)
        BY <4>1, <4>4, <4>5
      <4> QED BY <2>3, <4>6, FitsSame
    <3> QED BY <3>1, <3>2
  <2>5. timer' \in -1 .. MaxTimeout /\ work' \in BOOLEAN
    BY <2>1, <2>3, ListAssumption DEF Rearm, Returns
  <2> QED BY <1>1, <1>3, <2>4, <2>5 DEF LInv
<1> QED BY <1>5, <1>6 DEF Type

(* One lock changes, to one that holds off nothing. *)
LEMMA ChargedOne ==
  ASSUME NEW f, NEW g, NEW lf, NEW l, Charged(f, lf), l # main,
         \A x \in Lock \ {l} : g[x] = f[x],
         "INITIALIZED" \in g[l] => "ACTIVE" \notin g[l] /\ "PREVENTING_SUSPEND" \notin g[l]
  PROVE  Charged(g, lf)
<1>1. g[main] = f[main]
  BY ListAssumption
<1> QED BY <1>1 DEF Charged

(* wake_lock_init keeps the invariant. *)
LEMMA InitStep ==
  ASSUME LInv, NEW l \in Lock, wake_lock_init(l) PROVE LInv'
<1> DEFINE t == Type(l)
           g == [flags EXCEPT ![l] = {"INITIALIZED"}]
<1>0. main \in Lock /\ unknown \in Lock
  BY ListAssumption
<1>1. Fits(flags, active, inactive) /\ Charged(flags, left) /\ flags \in FlagSets
      /\ active \in [{"SUSPEND", "IDLE"} -> Seq(Lock)] /\ inactive = Free(flags)
      /\ main \in Has(flags, "INITIALIZED") \ Has(flags, "AUTO_EXPIRE")
      /\ unknown \in Has(flags, "INITIALIZED")
  BY DEF LInv, Fits
<1>2. "INITIALIZED" \notin flags[l] /\ flags' = g /\ inactive' = inactive \union {l}
      /\ UNCHANGED <<active, left, timer, work, susp, event>>
  BY DEF wake_lock_init
<1>3. g \in FlagSets /\ g[l] = {"INITIALIZED"} /\ \A x \in Lock \ {l} : g[x] = flags[x]
  BY <1>1 DEF FlagSets, Flag
<1> HIDE DEF g
<1>4. "INITIALIZED" \in g[l] /\ "ACTIVE" \notin g[l] /\ "AUTO_EXPIRE" \notin g[l]
      /\ "PREVENTING_SUSPEND" \notin g[l]
  BY <1>3
<1>5. l # main /\ l # unknown
  BY <1>1, <1>2 DEF Has
<1>6. Agree(flags, g, {l})
  BY <1>3 DEF Agree
<1>7. main \in Has(g, "INITIALIZED") \ Has(g, "AUTO_EXPIRE") /\ unknown \in Has(g, "INITIALIZED")
  BY <1>0, <1>1, <1>3, <1>5 DEF Has
<1>8. OnType(g, t) = OnType(flags, t) /\ \A x \in OnType(flags, t) : g[x] = flags[x]
  BY <1>2, <1>3, <1>4 DEF OnType
<1>9. Lists(g, OnType(g, t), active[t])
  <2>1. Lists(flags, OnType(flags, t), active[t])
    BY <1>1 DEF Fits, Type
  <2> HIDE DEF t
  <2> QED BY <1>8, <2>1, ListsSame
<1>10. Free(g) = inactive \union {l}
  BY <1>1, <1>2, <1>3, <1>4 DEF Free
<1>11. Fits(g, [active EXCEPT ![Type(l)] = active[t]], Free(g))
  BY <1>1, <1>3, <1>6, <1>7, <1>9, FitsOne
<1>12. [active EXCEPT ![Type(l)] = active[t]] = active
  BY <1>1
<1>13. Charged(g, left)
  BY <1>1, <1>3, <1>4, <1>5, ChargedOne
<1> QED BY <1>2, <1>10, <1>11, <1>12, <1>13 DEF LInv

(* wake_lock_destroy keeps the invariant. *)
LEMMA DestroyStep ==
  ASSUME LInv, NEW l \in Lock \ {main, unknown}, wake_lock_destroy(l) PROVE LInv'
<1> DEFINE g == [flags EXCEPT ![l] = @ \ {"INITIALIZED"}]
<1>0. main \in Lock /\ unknown \in Lock
  BY ListAssumption
<1>1. Fits(flags, active, inactive) /\ Charged(flags, left) /\ flags \in FlagSets /\ inactive = Free(flags)
      /\ main \in Has(flags, "INITIALIZED") \ Has(flags, "AUTO_EXPIRE")
      /\ unknown \in Has(flags, "INITIALIZED")
  BY DEF LInv, Fits
<1>2. flags' = g /\ inactive' = inactive \ {l} /\ active' = [active EXCEPT ![Type(l)] = list_del(@, l)]
      /\ UNCHANGED <<left, timer, work, susp, event>>
  BY DEF wake_lock_destroy
<1>3. g \in FlagSets /\ g[l] = flags[l] \ {"INITIALIZED"} /\ \A x \in Lock \ {l} : g[x] = flags[x]
  <2>1. flags[l] \in SUBSET Flag
    BY <1>1 DEF FlagSets
  <2> QED BY <1>1, <2>1 DEF FlagSets
<1> HIDE DEF g
<1>4. "INITIALIZED" \notin g[l]
  BY <1>3
<1>5. Agree(flags, g, {l})
  BY <1>3 DEF Agree
<1>6. main \in Has(g, "INITIALIZED") \ Has(g, "AUTO_EXPIRE") /\ unknown \in Has(g, "INITIALIZED")
  BY <1>0, <1>1, <1>3 DEF Has
<1>7. Free(g) = inactive \ {l}
  BY <1>1, <1>3, <1>4 DEF Free
<1>8. Fits(g, [active EXCEPT ![Type(l)] = list_del(@, l)], Free(g))
  BY <1>1, <1>3, <1>4, <1>5, <1>6, FitsDel
<1>9. Charged(g, left)
  BY <1>1, <1>3, <1>4, ChargedOne
<1> QED BY <1>2, <1>7, <1>8, <1>9 DEF LInv

(* A walk along the list as it stands: expire_wake_locks, has_wake_lock. *)
LEMMA LookStep ==
  ASSUME LInv, SetLists(flags, Look, inactive), UNCHANGED left
  PROVE  /\ Fits(flags', active', inactive') /\ Charged(flags', left)
         /\ Returns(flags, OnType(flags, "SUSPEND"), left, Look)
<1>1. PICK w : w = Look
  OBVIOUS
<1>2. w = has_wake_lock_locked(flags, active["SUSPEND"], left)
  BY <1>1 DEF Look
<1>3. /\ flags' = expire_wake_lock(flags, w.gone)
      /\ active' = [active EXCEPT !["SUSPEND"] = w.kept] /\ inactive' = inactive \union w.gone
  BY <1>1 DEF SetLists
<1>4. Fits(flags, active, inactive) /\ Charged(flags, left) /\ left \in [Lock -> 0 .. MaxTimeout]
  BY DEF LInv
<1>5. PICK r : r = expire_wake_lock(flags, w.gone)
  OBVIOUS
<1>6. /\ Fits(r, [active EXCEPT !["SUSPEND"] = w.kept], inactive \union w.gone) /\ Charged(r, left)
      /\ Returns(flags, OnType(flags, "SUSPEND"), left, w)
  BY <1>2, <1>4, <1>5, WalkStep
<1> QED BY <1>1, <1>3, <1>5, <1>6

(* Time passes. *)
LEMMA TickStep ==
  ASSUME LInv, Tick PROVE LInv'
<1>0. MaxTimeout \in Nat
  BY ListAssumption
<1>1. Charged(flags, left) /\ left \in [Lock -> 0 .. MaxTimeout] /\ timer \in -1 .. MaxTimeout
  BY DEF LInv
<1>2. left' = [l \in Lock |-> IF left[l] > 0 THEN left[l] - 1 ELSE 0]
      /\ timer' = (IF timer > 0 THEN timer - 1 ELSE timer)
      /\ UNCHANGED <<flags, active, inactive, work, susp, event>>
  BY DEF Tick
<1>3. left' \in [Lock -> 0 .. MaxTimeout]
  BY <1>0, <1>1, <1>2
<1>4. timer' \in -1 .. MaxTimeout
  BY <1>0, <1>1, <1>2
<1>5. \A l \in Lock : left[l] = 0 => left'[l] = 0
  BY <1>2
<1>6. Charged(flags, left')
  BY <1>1, <1>5 DEF Charged
<1> QED BY <1>2, <1>3, <1>4, <1>6 DEF LInv

(* The initial state. *)
LEMMA InitLInv == ListInit => LInv
<1> SUFFICES ASSUME ListInit PROVE LInv
  OBVIOUS
<1>0. main \in Lock /\ main \notin IdleLock /\ unknown \in Lock /\ main # unknown /\ unknown \notin IdleLock
      /\ MaxTimeout \in Nat
  BY ListAssumption
<1>1. flags = [l \in Lock |-> CASE l = main -> {"INITIALIZED", "ACTIVE"}
                                [] l = unknown -> {"INITIALIZED"}
                                [] OTHER -> {}]
  BY DEF ListInit
<1>2. flags[main] = {"INITIALIZED", "ACTIVE"} /\ flags[unknown] = {"INITIALIZED"}
      /\ \A l \in Lock \ {main, unknown} : flags[l] = {}
  BY <1>0, <1>1
<1>3. flags \in FlagSets
  <2>1. \A l \in Lock : flags[l] \in SUBSET Flag
    BY <1>2 DEF Flag
  <2>2. flags = [l \in Lock |-> flags[l]]
    BY <1>1
  <2> QED BY <2>1, <2>2 DEF FlagSets
<1>4. active["SUSPEND"] = <<main>> /\ active["IDLE"] = << >>
      /\ active \in [{"SUSPEND", "IDLE"} -> Seq(Lock)]
  BY <1>0 DEF ListInit
<1>5. OnType(flags, "SUSPEND") = {main} /\ OnType(flags, "IDLE") = {} /\ Free(flags) = {unknown}
  BY <1>0, <1>2 DEF OnType, Free, Type
<1>6. Lists(flags, {main}, <<main>>)
  <2>1. <<main, main>> \in InFront(flags)
    BY <1>0 DEF InFront
  <2>2. <<main>> \in Seq(Lock) /\ IsInjective(<<main>>) /\ ToSet(<<main>>) = {main}
        /\ (<<main, main>> \in InFront(flags) => Ordered(<<main>>, InFront(flags)))
    BY <1>0, OneAny
  <2> QED BY <2>1, <2>2 DEF Lists
<1>7. Lists(flags, {}, << >>)
  <2> DEFINE e == << >>
  <2>1. e \in Seq(Lock) /\ Len(e) = 0
    OBVIOUS
  <2> HIDE DEF e
  <2>2. \A i \in DOMAIN e : FALSE
    BY <2>1
  <2>3. DOMAIN e = 1 .. Len(e)
    BY <2>1
  <2>4. ToSet(e) = {} /\ IsInjective(e)
    BY <2>2 DEF ToSet, IsInjective
  <2>5. Ordered(e, InFront(flags))
    BY <2>2, <2>3 DEF Ordered
  <2> QED BY <2>1, <2>4, <2>5 DEF Lists, e
<1>8. inactive = Free(flags)
  BY <1>5 DEF ListInit
<1>9. main \in Has(flags, "INITIALIZED") \ Has(flags, "AUTO_EXPIRE") /\ unknown \in Has(flags, "INITIALIZED")
  BY <1>0, <1>2 DEF Has
<1>10. Fits(flags, active, inactive)
  <2>1. \A t \in {"SUSPEND", "IDLE"} : Lists(flags, OnType(flags, t), active[t])
    BY <1>4, <1>5, <1>6, <1>7
  <2> QED BY <1>3, <1>4, <1>8, <1>9, <2>1 DEF Fits
<1>11. Charged(flags, left)
  BY <1>0, <1>2 DEF Charged
<1>12. left \in [Lock -> 0 .. MaxTimeout] /\ timer \in -1 .. MaxTimeout /\ work \in BOOLEAN
  <2>1. left = [l \in Lock |-> 0] /\ timer = -1 /\ work = FALSE
    BY DEF ListInit
  <2>2. [l \in Lock |-> 0] \in [Lock -> 0 .. MaxTimeout]
    BY <1>0
  <2>3. -1 \in -1 .. MaxTimeout
    BY <1>0
  <2> QED BY <2>1, <2>2, <2>3, Zenon
<1> QED BY <1>10, <1>11, <1>12 DEF LInv

(* Every step keeps the invariant. *)
LEMMA NextLInv == LInv /\ [ListNext]_lvars => LInv'
<1> SUFFICES ASSUME LInv, [ListNext]_lvars PROVE LInv'
  OBVIOUS
<1>0. main \in Lock /\ unknown \in Lock /\ main # unknown /\ UnknownTimeout \in 0 .. MaxTimeout
      /\ MaxTimeout \in Nat
  BY ListAssumption
<1>1. ASSUME NEW l \in Lock \ {unknown}, LockOp(l) PROVE LInv'
  <2>1. CASE wake_lock(l)
    <3>1. wake_lock_internal(l, 0, FALSE)
      BY <2>1 DEF wake_lock
    <3>2. 0 \in 0 .. MaxTimeout
      BY <1>0
    <3> QED BY <3>1, <3>2, LockStep
  <2>2. CASE wake_unlock(l)
    BY <2>2, UnlockStep
  <2>3. CASE wake_lock_init(l)
    BY <2>3, InitStep
  <2>4. CASE l # main /\ wake_lock_destroy(l)
    BY <2>4, DestroyStep
  <2>5. ASSUME l # main, NEW t \in 0 .. MaxTimeout, wake_lock_timeout(l, t) PROVE LInv'
    <3>1. wake_lock_internal(l, t, TRUE)
      BY <2>5 DEF wake_lock_timeout
    <3> QED BY <2>5, <3>1, LockStep
  <2> QED BY <1>1, <2>1, <2>2, <2>3, <2>4, <2>5 DEF LockOp
<1>2. CASE Tick
  BY <1>2, TickStep
<1>3. CASE expire_wake_locks
  <2>1. SetLists(flags, Look, inactive) /\ left' = left /\ timer' = -1 /\ work' = (work \/ Look.ret = 0)
    BY <1>3 DEF expire_wake_locks
  <2>2. Fits(flags', active', inactive') /\ Charged(flags', left)
    BY <2>1, LookStep
  <2> QED BY <1>0, <2>1, <2>2 DEF LInv
<1>4. ASSUME SetLists(flags, Look, inactive), UNCHANGED <<left, timer>>, work' \in BOOLEAN PROVE LInv'
  <2>1. Fits(flags', active', inactive') /\ Charged(flags', left)
    BY <1>4, LookStep
  <2> QED BY <1>4, <2>1 DEF LInv
<1>5. CASE suspend
  <2>1. CASE susp = "idle" /\ work' = FALSE /\ has_wake_lock("checked", "idle")
             /\ UNCHANGED <<left, timer, event>>
    BY <1>4, <2>1 DEF has_wake_lock
  <2>2. CASE susp = "pm" /\ (has_wake_lock("pm", "resumed") \/ has_wake_lock("late", "resumed"))
             /\ UNCHANGED <<left, timer, work, event>>
    <3>1. work' \in BOOLEAN
      BY <2>2 DEF LInv
    <3> QED BY <1>4, <2>2, <3>1 DEF has_wake_lock
  <2>3. CASE UNCHANGED <<flags, active, inactive, left, timer, work>>
    BY <2>3 DEF LInv
  <2>4. CASE wake_lock_internal(unknown, UnknownTimeout, TRUE)
    BY <1>0, <2>4, LockStep
  <2> QED BY <1>5, <2>1, <2>2, <2>3, <2>4 DEF suspend
<1>6. CASE UNCHANGED lvars
  BY <1>6 DEF lvars, LInv
<1> QED BY <1>1, <1>2, <1>3, <1>5, <1>6 DEF ListNext

(* The invariant has the properties as its parts. *)
LEMMA LInvImplies == LInv => ListTypeOK /\ LinkedOnce /\ UntimedFirst /\ SleepTimeCharged
<1> SUFFICES ASSUME LInv PROVE ListTypeOK /\ LinkedOnce /\ UntimedFirst /\ SleepTimeCharged
  OBVIOUS
<1>1. Fits(flags, active, inactive) /\ Charged(flags, left) /\ flags \in FlagSets
      /\ active \in [{"SUSPEND", "IDLE"} -> Seq(Lock)] /\ inactive = Free(flags)
  BY DEF LInv, Fits
<1>2. \A t \in {"SUSPEND", "IDLE"} :
        active[t] \in Seq(Lock) /\ IsInjective(active[t]) /\ Ordered(active[t], InFront(flags))
        /\ ToSet(active[t]) = OnType(flags, t)
  BY <1>1 DEF Fits, Lists
<1>3. ListTypeOK
  BY <1>1 DEF LInv, ListTypeOK, FlagSets, Free
<1>4. LinkedOnce
  <2>1. On("SUSPEND") = OnType(flags, "SUSPEND") /\ On("IDLE") = OnType(flags, "IDLE")
        /\ \A l \in Lock : Type(l) \in {"SUSPEND", "IDLE"} /\ On(Type(l)) = OnType(flags, Type(l))
    BY <1>2 DEF On, Type
  <2>2. \A t \in {"SUSPEND", "IDLE"} : IsInjective(active[t]) /\ \A l \in On(t) : Type(l) = t
    BY <1>2 DEF On, OnType
  <2>3. inactive \intersect Listed = {}
    BY <1>1, <2>1 DEF Listed, OnType, Free
  <2>4. ASSUME NEW l \in Lock
        PROVE  IF "INITIALIZED" \in flags[l]
               THEN /\ "ACTIVE" \in flags[l] <=> l \in On(Type(l))
                    /\ "ACTIVE" \notin flags[l] <=> l \in inactive
               ELSE l \notin inactive \union Listed
    BY <1>1, <2>1 DEF Listed, OnType, Free
  <2> QED BY <2>2, <2>3, <2>4 DEF LinkedOnce
<1>5. UntimedFirst
  <2> SUFFICES ASSUME NEW t \in {"SUSPEND", "IDLE"}, NEW i \in DOMAIN active[t], NEW j \in DOMAIN active[t],
                      i < j, "AUTO_EXPIRE" \notin flags[active[t][j]]
               PROVE  "AUTO_EXPIRE" \notin flags[active[t][i]]
    BY DEF UntimedFirst
  <2> DEFINE s == active[t]
  <2>1. s \in Seq(Lock) /\ Ordered(s, InFront(flags)) /\ DOMAIN s = 1 .. Len(s)
    BY <1>2
  <2> HIDE DEF s
  <2>2. i \in 1 .. Len(s) /\ j \in 1 .. Len(s)
    BY <2>1 DEF s
  <2>3. i <= j
    BY <2>2
  <2>4. <<s[i], s[j]>> \in InFront(flags)
    BY <2>1, <2>2, <2>3 DEF Ordered
  <2> QED BY <2>4 DEF InFront, s
<1>6. SleepTimeCharged
  BY <1>1 DEF Charged, SleepTimeCharged, IsExpired
<1> QED BY <1>3, <1>4, <1>5, <1>6

(***************************************************************************)
(* The flags of a lock name the one list of wakelock.c it is linked into,  *)
(* once, and the locks without timeout are in front on each list.          *)
(***************************************************************************)
THEOREM ListsCorrect == ListSpec => [](ListTypeOK /\ LinkedOnce /\ UntimedFirst)
<1>1. LInv => ListTypeOK /\ LinkedOnce /\ UntimedFirst
  BY LInvImplies
<1> QED BY <1>1, InitLInv, NextLInv, PTL DEF ListSpec

(***************************************************************************)
(* The time for which a lock prevents suspend is charged exactly while it  *)
(* does, whatever wake_lock, wake_unlock, the expiry of locks and the      *)
(* walks make of WAKE_LOCK_PREVENTING_SUSPEND: it is set only on a lock    *)
(* that is active while main_wake_lock is not, and on each of those that   *)
(* has time left.                                                          *)
(***************************************************************************)
THEOREM ChargesCorrect == ListSpec => []SleepTimeCharged
<1>1. LInv => SleepTimeCharged
  BY LInvImplies
<1> QED BY <1>1, InitLInv, NextLInv, PTL DEF ListSpec

(***************************************************************************)
(* The lists implement the sets of WakeLock.                               *)
(***************************************************************************)
Held(fl) == {l \in Lock : "INITIALIZED" \in fl[l] /\ "ACTIVE" \in fl[l]}

(* What the abstract variables are. *)
LEMMA AbstractSets ==
  ASSUME NEW f, NEW act, NEW off, Fits(f, act, off)
  PROVE  ToSet(act["SUSPEND"]) \union ToSet(act["IDLE"]) = Held(f)
<1>1. ToSet(act["SUSPEND"]) = OnType(f, "SUSPEND") /\ ToSet(act["IDLE"]) = OnType(f, "IDLE")
  BY DEF Fits, Lists
<1> QED BY <1>1 DEF OnType, Held, Type

(* They do not depend on the statistics. *)
LEMMA SameSets ==
  ASSUME NEW f, NEW g, Agree(f, g, {})
  PROVE  Held(g) = Held(f) /\ Has(g, "INITIALIZED") = Has(f, "INITIALIZED")
         /\ Has(g, "AUTO_EXPIRE") = Has(f, "AUTO_EXPIRE")
BY DEF Agree, Held, Has

(* expire_wake_lock, on the sets. *)
LEMMA ExpireSets ==
  ASSUME NEW f \in FlagSets, NEW S, NEW r, r = expire_wake_lock(f, S)
  PROVE  Held(r) = Held(f) \ S /\ Has(r, "INITIALIZED") = Has(f, "INITIALIZED")
         /\ Has(r, "AUTO_EXPIRE") = Has(f, "AUTO_EXPIRE") \ S
<1>1. \A l \in Lock :
        /\ "INITIALIZED" \in r[l] <=> "INITIALIZED" \in f[l]
        /\ "ACTIVE" \in r[l] <=> "ACTIVE" \in f[l] /\ l \notin S
        /\ "AUTO_EXPIRE" \in r[l] <=> "AUTO_EXPIRE" \in f[l] /\ l \notin S
  BY ExpireIs
<1> QED BY <1>1 DEF Held, Has

(* The walk returns and expires what WakeLock says. *)
LEMMA AbstractWalk ==
  ASSUME NEW f, NEW lf, NEW w, Returns(f, OnType(f, "SUSPEND"), lf, w)
  PROVE  /\ Abs!HasWakeLock(Held(f), Has(f, "AUTO_EXPIRE"), lf, w.ret)
         /\ w.gone = Abs!Expired(Held(f), Has(f, "AUTO_EXPIRE"), lf)
         /\ w.ret \in -1 .. MaxTimeout
<1> DEFINE S == OnType(f, "SUSPEND")
<1>1. Held(f) \ IdleLock = S
  BY DEF Held, OnType, Type
<1>2. S \subseteq Lock
  BY DEF OnType
<1> HIDE DEF S
<1>3. Abs!Untimed(Held(f), Has(f, "AUTO_EXPIRE")) = {l \in S : "AUTO_EXPIRE" \notin f[l]}
  BY <1>1, <1>2 DEF Abs!Untimed, Has
<1>4. CASE \E l \in S : "AUTO_EXPIRE" \notin f[l]
  <2>1. w.ret = -1 /\ w.gone = {} /\ w.ret \in -1 .. MaxTimeout
    BY <1>4 DEF Returns, S
  <2>2. Abs!Untimed(Held(f), Has(f, "AUTO_EXPIRE")) # {}
    BY <1>3, <1>4
  <2> QED BY <2>1, <2>2 DEF Abs!HasWakeLock, Abs!Expired
<1>5. CASE ~\E l \in S : "AUTO_EXPIRE" \notin f[l]
  <2>1. /\ w.gone = {l \in S : lf[l] = 0} /\ w.ret \in {0} \union {lf[l] : l \in S}
        /\ \A l \in S : lf[l] <= w.ret
        /\ w.ret \in -1 .. MaxTimeout
    BY <1>5 DEF Returns, S
  <2>2. Abs!Untimed(Held(f), Has(f, "AUTO_EXPIRE")) = {}
    BY <1>3, <1>5
  <2> QED BY <1>1, <2>1, <2>2 DEF Abs!HasWakeLock, Abs!Expired
<1> QED BY <1>4, <1>5

(* Rearm is the same on both levels. *)
LEMMA AbstractRearm ==
  ASSUME work \in BOOLEAN, NEW ret \in -1 .. MaxTimeout, Rearm(ret)
  PROVE  Abs!Rearm(ret)
<1>1. timer' = IF ret > 0 THEN ret ELSE -1
  BY DEF Rearm
<1>2. work' = IF ret = 0 THEN TRUE ELSE work
  BY DEF Rearm
<1> QED BY <1>1, <1>2, Zenon DEF Abs!Rearm

(* wake_lock_internal with a timeout. *)
LEMMA AbstractTimed ==
  ASSUME LInv, LInv', NEW l \in Lock \ {main}, NEW timeout \in 0 .. MaxTimeout,
         wake_lock_internal(l, timeout, TRUE)
  PROVE  Abs!wake_lock_internal(l, timeout, TRUE)
<1> DEFINE g == LockFlags(l, TRUE)
           s == LockList(l, TRUE)
           lf == LockTimes(l, timeout)
           st == LockStats(l, timeout, TRUE)
           b == [active EXCEPT ![Type(l)] = s]
           h == Listed \union {l}
           a == Has(flags, "AUTO_EXPIRE") \union {l}
<1>1. "INITIALIZED" \in flags[l] /\ left' = lf
  BY LockIs
<1>2. Listed = Held(flags) /\ Listed' = Held(flags')
  BY AbstractSets DEF LInv, Listed, On
<1>3. /\ lf \in [Lock -> 0 .. MaxTimeout]
      /\ Fits(g, b, inactive \ {l})
      /\ Type(l) = "SUSPEND" => Agree(g, st, {}) /\ Fits(st, b, inactive \ {l})
  BY <1>1, LockFits
<1>4. Agree(flags, g, {l}) /\ "INITIALIZED" \in g[l] /\ "ACTIVE" \in g[l] /\ "AUTO_EXPIRE" \in g[l]
  BY <1>1, LockFlagsAre
<1>5. active \in [{"SUSPEND", "IDLE"} -> Seq(Lock)] /\ work \in BOOLEAN
  BY DEF LInv, Fits
<1>6. lf = [left EXCEPT ![l] = timeout]
  BY DEF LockTimes
<1> HIDE DEF g, s, lf, st
<1>7. Held(g) = h /\ Has(g, "INITIALIZED") = Has(flags, "INITIALIZED") /\ Has(g, "AUTO_EXPIRE") = a
  BY <1>1, <1>2, <1>4 DEF Held, Has, Agree
<1> HIDE DEF h, a
<1>8. CASE Type(l) = "IDLE"
  <2>1. flags' = g /\ UNCHANGED <<timer, work, event>>
    BY <1>8, LockIs DEF g
  <2>2. l \in IdleLock
    BY <1>8 DEF Type
  <2>3. Held(flags') = h /\ Has(flags', "INITIALIZED") = Has(flags, "INITIALIZED")
        /\ Has(flags', "AUTO_EXPIRE") = a
    BY <1>7, <2>1
  <2> QED BY <1>1, <1>2, <1>6, <2>1, <2>2, <2>3 DEF Abs!wake_lock_internal, Has, h, a
<1>9. CASE Type(l) = "SUSPEND"
  <2>1. PICK w : /\ w = has_wake_lock_locked(st, s, lf)
                 /\ SetLists(st, w, inactive \ {l})
                 /\ Rearm(w.ret)
    BY <1>9, LockIs DEF g, s, lf, st
  <2>2. b["SUSPEND"] = s
    BY <1>5, <1>9
  <2>3. l \notin IdleLock /\ event' = TRUE
    BY <1>9, LockIs DEF Type
  <2> HIDE DEF b
  <2>4. Fits(st, b, inactive \ {l}) /\ st \in FlagSets /\ Agree(g, st, {})
    BY <1>3, <1>9 DEF Fits
  <2>5. Returns(st, OnType(st, "SUSPEND"), lf, w)
    <3>1. w = has_wake_lock_locked(st, b["SUSPEND"], lf)
      BY <2>1, <2>2
    <3> QED BY <1>3, <2>4, <3>1, WalkReturns
  <2>6. Held(st) = h /\ Has(st, "INITIALIZED") = Has(flags, "INITIALIZED") /\ Has(st, "AUTO_EXPIRE") = a
    BY <1>7, <2>4, SameSets
  <2>7. /\ Abs!HasWakeLock(h, a, lf, w.ret) /\ w.gone = Abs!Expired(h, a, lf)
        /\ w.ret \in -1 .. MaxTimeout
    BY <2>5, <2>6, AbstractWalk
  <2>8. Abs!Rearm(w.ret)
    BY <1>5, <2>1, <2>7, AbstractRearm
  <2>9. Held(flags') = h \ w.gone /\ Has(flags', "INITIALIZED") = Has(flags, "INITIALIZED")
        /\ Has(flags', "AUTO_EXPIRE") = a \ w.gone
    <3>1. flags' = expire_wake_lock(st, w.gone)
      BY <2>1 DEF SetLists
    <3> QED BY <2>4, <2>6, <3>1, ExpireSets
  <2>10. Abs!ExpireFrom(h, a, lf)
    BY <1>2, <2>7, <2>9 DEF Abs!ExpireFrom, Has
  <2>11. \E ret \in -1 .. MaxTimeout : Abs!HasWakeLock(h, a, lf, ret) /\ Abs!Rearm(ret)
    BY <2>7, <2>8
  <2>12. /\ h = Listed \union {l} /\ a = {x \in Lock : "AUTO_EXPIRE" \in flags[x]} \union {l}
         /\ lf = [left EXCEPT ![l] = timeout] /\ left' = lf
         /\ l \in {x \in Lock : "INITIALIZED" \in flags[x]}
         /\ {x \in Lock : "INITIALIZED" \in flags'[x]} = {x \in Lock : "INITIALIZED" \in flags[x]}
    BY <1>1, <1>6, <2>9 DEF Has, h, a
  <2> DEFINE au == {x \in Lock : "AUTO_EXPIRE" \in flags[x]}
             a2 == IF TRUE THEN au \union {l} ELSE au \ {l}
             lf2 == [left EXCEPT ![l] = IF TRUE THEN timeout ELSE 0]
  <2>13. h = Listed \union {l} /\ a = a2 /\ lf = lf2
    BY <2>12
  <2>14. \E ret \in -1 .. MaxTimeout : Abs!HasWakeLock(Listed \union {l}, a2, lf2, ret) /\ Abs!Rearm(ret)
    <3> HIDE DEF a2, lf2
    <3> QED BY <2>11, <2>13
  <2>15. Abs!ExpireFrom(Listed \union {l}, a2, lf2)
    <3> HIDE DEF a2, lf2
    <3> QED BY <2>10, <2>13 DEF Abs!ExpireFrom
  <2>16. left' = lf2
    BY <2>12
  <2> QED BY <2>3, <2>12, <2>14, <2>15, <2>16, Zenon DEF Abs!wake_lock_internal
<1> QED BY <1>8, <1>9 DEF Type

(* wake_lock_internal without a timeout. *)
LEMMA AbstractUntimed ==
  ASSUME LInv, LInv', NEW l \in Lock, wake_lock_internal(l, 0, FALSE)
  PROVE  Abs!wake_lock_internal(l, 0, FALSE)
<1> DEFINE g == LockFlags(l, FALSE)
           st == LockStats(l, 0, FALSE)
           h == Listed \union {l}
           a == Has(flags, "AUTO_EXPIRE") \ {l}
<1>0. 0 \in 0 .. MaxTimeout
  BY ListAssumption
<1>1. "INITIALIZED" \in flags[l] /\ left' = [left EXCEPT ![l] = 0]
  BY LockIs DEF LockTimes
<1>2. Listed = Held(flags) /\ Listed' = Held(flags')
  BY AbstractSets DEF LInv, Listed, On
<1>3. g \in FlagSets
      /\ (Type(l) = "SUSPEND" => Agree(g, st, {}) /\ st \in FlagSets)
  <2>1. Fits(g, [active EXCEPT ![Type(l)] = LockList(l, FALSE)], inactive \ {l})
        /\ (Type(l) = "SUSPEND" =>
              Agree(g, st, {}) /\ Fits(st, [active EXCEPT ![Type(l)] = LockList(l, FALSE)], inactive \ {l}))
    BY <1>0, <1>1, LockFits
  <2> QED BY <2>1 DEF Fits
<1>4. Agree(flags, g, {l}) /\ "INITIALIZED" \in g[l] /\ "ACTIVE" \in g[l] /\ "AUTO_EXPIRE" \notin g[l]
  BY <1>1, LockFlagsAre
<1>5. work \in BOOLEAN
  BY DEF LInv
<1> HIDE DEF g, st
<1>6. Held(g) = h /\ Has(g, "INITIALIZED") = Has(flags, "INITIALIZED") /\ Has(g, "AUTO_EXPIRE") = a
  BY <1>1, <1>2, <1>4 DEF Held, Has, Agree
<1> HIDE DEF h, a
<1>7. CASE Type(l) = "IDLE"
  <2>1. flags' = g /\ UNCHANGED <<timer, work, event>>
    BY <1>7, LockIs DEF g
  <2>2. l \in IdleLock
    BY <1>7 DEF Type
  <2>3. Held(flags') = h /\ Has(flags', "INITIALIZED") = Has(flags, "INITIALIZED")
        /\ Has(flags', "AUTO_EXPIRE") = a
    BY <1>6, <2>1
  <2> QED BY <1>1, <1>2, <2>1, <2>2, <2>3 DEF Abs!wake_lock_internal, Has, h, a
<1>8. CASE Type(l) = "SUSPEND"
  <2>1. PICK w : /\ w = [ret |-> -1, gone |-> {}, kept |-> LockList(l, FALSE)]
                 /\ SetLists(st, w, inactive \ {l})
                 /\ Rearm(w.ret)
    BY <1>8, LockIs DEF g, st
  <2>2. l \notin IdleLock /\ event' = TRUE
    BY <1>8, LockIs DEF Type
  <2>3. flags' = expire_wake_lock(st, {}) /\ Rearm(-1)
    BY <2>1 DEF SetLists
  <2>4. Held(flags') = h /\ Has(flags', "INITIALIZED") = Has(flags, "INITIALIZED")
        /\ Has(flags', "AUTO_EXPIRE") = a
    <3>1. Held(st) = h /\ Has(st, "INITIALIZED") = Has(flags, "INITIALIZED") /\ Has(st, "AUTO_EXPIRE") = a
      BY <1>3, <1>6, <1>8, SameSets
    <3>2. st \in FlagSets
      BY <1>3, <1>8
    <3>3. Held(flags') = h \ {} /\ Has(flags', "INITIALIZED") = Has(flags, "INITIALIZED")
          /\ Has(flags', "AUTO_EXPIRE") = a \ {}
      BY <2>3, <3>1, <3>2, ExpireSets
    <3> QED BY <3>3
  <2>5. Abs!Rearm(-1)
    <3>1. -1 \in -1 .. MaxTimeout
      BY ListAssumption
    <3> QED BY <1>5, <2>3, <3>1, AbstractRearm
  <2> QED BY <1>1, <1>2, <2>2, <2>4, <2>5 DEF Abs!wake_lock_internal, Has, h, a
<1> QED BY <1>7, <1>8 DEF Type

(* wake_unlock. *)
LEMMA AbstractUnlock ==
  ASSUME LInv, LInv', NEW l \in Lock, wake_unlock(l)
  PROVE  Abs!wake_unlock(l)
<1> DEFINE g == UnlockFlags(l)
           s == list_del(active[Type(l)], l)
           b == [active EXCEPT ![Type(l)] = list_del(@, l)]
           au == {x \in Lock : "AUTO_EXPIRE" \in flags[x]}
           h == Listed \ {l}
           a == au \ {l}
<1>1. "INITIALIZED" \in flags[l] /\ UNCHANGED <<left, susp, event>>
  BY UnlockIs
<1>2. Listed = Held(flags) /\ Listed' = Held(flags')
  BY AbstractSets DEF LInv, Listed, On
<1>3. /\ g \in FlagSets /\ Agree(flags, g, {l})
      /\ "INITIALIZED" \in g[l] /\ "ACTIVE" \notin g[l] /\ "AUTO_EXPIRE" \notin g[l]
      /\ Fits(g, b, inactive \union {l})
  BY <1>1, UnlockFits
<1>4. active \in [{"SUSPEND", "IDLE"} -> Seq(Lock)] /\ work \in BOOLEAN
      /\ left \in [Lock -> 0 .. MaxTimeout]
  BY DEF LInv, Fits
<1>5. Abs!TasksRun
  BY DEF wake_unlock, TasksRun, Abs!TasksRun
<1> HIDE DEF g
<1>6. Held(g) = h /\ Has(g, "INITIALIZED") = Has(flags, "INITIALIZED") /\ Has(g, "AUTO_EXPIRE") = a
  BY <1>1, <1>2, <1>3 DEF Held, Has, Agree
<1>7. l \in {x \in Lock : "INITIALIZED" \in flags[x]}
  BY <1>1
<1>8. CASE Type(l) = "IDLE"
  <2>1. flags' = g /\ UNCHANGED <<timer, work>>
    BY <1>8, UnlockIs DEF g
  <2>2. l \in IdleLock
    BY <1>8 DEF Type
  <2>3. Listed' = h /\ Has(flags', "INITIALIZED") = Has(flags, "INITIALIZED")
        /\ Has(flags', "AUTO_EXPIRE") = a
    BY <1>2, <1>6, <2>1
  <2> QED BY <1>1, <1>5, <1>7, <2>1, <2>2, <2>3 DEF Abs!wake_unlock, Has
<1>9. CASE Type(l) = "SUSPEND"
  <2>1. PICK w, e :
          /\ w = has_wake_lock_locked(g, s, left)
          /\ e = expire_wake_lock(g, w.gone)
          /\ Rearm(w.ret)
          /\ flags' = IF l = main THEN update_sleep_wait_stats_locked(e, w.kept, left, FALSE) ELSE e
    BY <1>9, UnlockIs DEF g
  <2>2. b["SUSPEND"] = s
    BY <1>4, <1>9
  <2>3. l \notin IdleLock
    BY <1>9 DEF Type
  <2> HIDE DEF b, s
  <2>4. Returns(g, OnType(g, "SUSPEND"), left, w)
    <3>1. w = has_wake_lock_locked(g, b["SUSPEND"], left)
      BY <2>1, <2>2
    <3> QED BY <1>3, <1>4, <3>1, WalkReturns
  <2> HIDE DEF h, a
  <2>5. /\ Abs!HasWakeLock(h, a, left, w.ret) /\ w.gone = Abs!Expired(h, a, left)
        /\ w.ret \in -1 .. MaxTimeout
    BY <1>6, <2>4, AbstractWalk
  <2>6. Abs!Rearm(w.ret)
    BY <1>4, <2>1, <2>5, AbstractRearm
  <2>7. e \in FlagSets
    BY <1>3, <2>1, ExpireIs
  <2>8. Held(e) = h \ w.gone /\ Has(e, "INITIALIZED") = Has(flags, "INITIALIZED")
        /\ Has(e, "AUTO_EXPIRE") = a \ w.gone
    BY <1>3, <1>6, <2>1, ExpireSets
  <2>9. Agree(e, flags', {})
    <3>1. CASE l # main
      BY <2>1, <3>1 DEF Agree
    <3>2. CASE l = main
      <4>1. PICK k, r : k = w.kept /\ r = update_sleep_wait_stats_locked(e, k, left, FALSE)
        OBVIOUS
      <4>2. \A x \in Lock :
              /\ "INITIALIZED" \in r[x] <=> "INITIALIZED" \in e[x]
              /\ "ACTIVE" \in r[x] <=> "ACTIVE" \in e[x]
              /\ "AUTO_EXPIRE" \in r[x] <=> "AUTO_EXPIRE" \in e[x]
        BY <2>7, <4>1, UpdateIs
      <4>3. flags' = r
        BY <2>1, <3>2, <4>1
      <4> QED BY <4>2, <4>3 DEF Agree
    <3> QED BY <3>1, <3>2
  <2>10. Held(flags') = h \ w.gone /\ Has(flags', "INITIALIZED") = Has(flags, "INITIALIZED")
         /\ Has(flags', "AUTO_EXPIRE") = a \ w.gone
    BY <2>8, <2>9, SameSets
  <2>11. Abs!ExpireFrom(h, a, left)
    BY <1>2, <2>5, <2>10 DEF Abs!ExpireFrom, Has
  <2>12. \E ret \in -1 .. MaxTimeout : Abs!HasWakeLock(h, a, left, ret) /\ Abs!Rearm(ret)
    BY <2>5, <2>6
  <2>13. {x \in Lock : "INITIALIZED" \in flags'[x]} = {x \in Lock : "INITIALIZED" \in flags[x]}
    BY <2>10 DEF Has
  <2> QED BY <1>1, <1>5, <1>7, <2>3, <2>11, <2>12, <2>13, Zenon DEF Abs!wake_unlock, h, a
<1> QED BY <1>8, <1>9 DEF Type

(* A walk along the list as it stands. *)
LEMMA AbstractLook ==
  ASSUME LInv, LInv', SetLists(flags, Look, inactive), UNCHANGED left
  PROVE  /\ Look.ret \in -1 .. MaxTimeout
         /\ Abs!HasWakeLock(Listed, {x \in Lock : "AUTO_EXPIRE" \in flags[x]}, left, Look.ret)
         /\ Abs!ExpireFrom(Listed, {x \in Lock : "AUTO_EXPIRE" \in flags[x]}, left)
         /\ {x \in Lock : "INITIALIZED" \in flags'[x]} = {x \in Lock : "INITIALIZED" \in flags[x]}
<1>1. PICK w : w = Look
  OBVIOUS
<1>2. Listed = Held(flags) /\ Listed' = Held(flags') /\ flags \in FlagSets
  BY AbstractSets DEF LInv, Listed, On, Fits
<1>3. Returns(flags, OnType(flags, "SUSPEND"), left, w)
  BY <1>1, LookStep
<1>4. /\ Abs!HasWakeLock(Listed, Has(flags, "AUTO_EXPIRE"), left, w.ret)
      /\ w.gone = Abs!Expired(Listed, Has(flags, "AUTO_EXPIRE"), left)
      /\ w.ret \in -1 .. MaxTimeout
  BY <1>2, <1>3, AbstractWalk
<1>5. flags' = expire_wake_lock(flags, w.gone)
  BY <1>1 DEF SetLists
<1>6. Held(flags') = Listed \ w.gone /\ Has(flags', "INITIALIZED") = Has(flags, "INITIALIZED")
      /\ Has(flags', "AUTO_EXPIRE") = Has(flags, "AUTO_EXPIRE") \ w.gone
  BY <1>2, <1>5, ExpireSets
<1>7. Abs!ExpireFrom(Listed, {x \in Lock : "AUTO_EXPIRE" \in flags[x]}, left)
  BY <1>2, <1>4, <1>6 DEF Abs!ExpireFrom, Has
<1> QED BY <1>1, <1>4, <1>6, <1>7 DEF Has

(* The initial states. *)
LEMMA AbstractInit == ListInit => Abs!Init
<1> SUFFICES ASSUME ListInit PROVE Abs!Init
  OBVIOUS
<1>0. main \in Lock /\ unknown \in Lock /\ main # unknown
  BY ListAssumption
<1>1. LInv
  BY InitLInv
<1>2. Listed = Held(flags)
  BY <1>1, AbstractSets DEF LInv, Listed, On
<1>3. flags = [l \in Lock |-> CASE l = main -> {"INITIALIZED", "ACTIVE"}
                                [] l = unknown -> {"INITIALIZED"}
                                [] OTHER -> {}]
  BY DEF ListInit
<1>4. flags[main] = {"INITIALIZED", "ACTIVE"} /\ flags[unknown] = {"INITIALIZED"}
      /\ \A l \in Lock \ {main, unknown} : flags[l] = {}
  BY <1>0, <1>3
<1>5. {l \in Lock : "INITIALIZED" \in flags[l]} = {main, unknown} /\ Held(flags) = {main}
      /\ {l \in Lock : "AUTO_EXPIRE" \in flags[l]} = {}
  BY <1>0, <1>4 DEF Held
<1> QED BY <1>2, <1>5 DEF ListInit, Abs!Init

(* The steps. *)
LEMMA AbstractNext == LInv /\ LInv' /\ [ListNext]_lvars => [Abs!Next]_(Abs!vars)
<1> SUFFICES ASSUME LInv, LInv', [ListNext]_lvars PROVE [Abs!Next]_(Abs!vars)
  OBVIOUS
<1> DEFINE ini == {x \in Lock : "INITIALIZED" \in flags[x]}
           au == {x \in Lock : "AUTO_EXPIRE" \in flags[x]}
<1>0. main \in Lock /\ unknown \in Lock \ {main} /\ UnknownTimeout \in 0 .. MaxTimeout
  BY ListAssumption
<1>1. Listed = Held(flags) /\ Listed' = Held(flags') /\ flags \in FlagSets
  BY AbstractSets DEF LInv, Listed, On, Fits
<1>2. ASSUME NEW l \in Lock \ {unknown}, LockOp(l) PROVE Abs!LockOp(l)
  <2>1. CASE wake_lock(l)
    <3>1. wake_lock_internal(l, 0, FALSE) /\ TasksRun /\ UNCHANGED susp
      BY <2>1 DEF wake_lock
    <3>2. Abs!wake_lock_internal(l, 0, FALSE)
      BY <3>1, AbstractUntimed
    <3> QED BY <3>1, <3>2 DEF Abs!LockOp, Abs!wake_lock, TasksRun, Abs!TasksRun
  <2>2. CASE wake_unlock(l)
    <3>1. Abs!wake_unlock(l)
      BY <2>2, AbstractUnlock
    <3> QED BY <3>1 DEF Abs!LockOp
  <2>3. CASE l # main /\ wake_lock_init(l)
    <3>1. TasksRun /\ "INITIALIZED" \notin flags[l] /\ flags' = [flags EXCEPT ![l] = {"INITIALIZED"}]
          /\ UNCHANGED <<active, left, timer, work, susp, event>>
      BY <2>3 DEF wake_lock_init
    <3>2. flags'[l] = {"INITIALIZED"} /\ \A x \in Lock \ {l} : flags'[x] = flags[x]
      BY <1>1, <3>1 DEF FlagSets
    <3>3. ini' = ini \union {l} /\ au' = au \ {l}
      BY <3>2
    <3>4. UNCHANGED Listed
      BY <3>1 DEF Listed, On
    <3>5. l \notin ini
      BY <3>1
    <3> QED BY <2>3, <3>1, <3>3, <3>4, <3>5 DEF Abs!LockOp, Abs!wake_lock_init, TasksRun, Abs!TasksRun
  <2>4. CASE l # main /\ wake_lock_destroy(l)
    <3>1. TasksRun /\ "INITIALIZED" \in flags[l] /\ flags' = [flags EXCEPT ![l] = @ \ {"INITIALIZED"}]
          /\ ("ACTIVE" \in flags[l] => "AUTO_EXPIRE" \in flags[l])
          /\ UNCHANGED <<left, timer, work, susp, event>>
      BY <2>4 DEF wake_lock_destroy
    <3>2. flags'[l] = flags[l] \ {"INITIALIZED"} /\ \A x \in Lock \ {l} : flags'[x] = flags[x]
      BY <1>1, <3>1 DEF FlagSets
    <3>3. ini' = ini \ {l} /\ au' = au
      BY <3>2
    <3>4. Listed' = Listed \ {l}
      BY <1>1, <3>2 DEF Held
    <3>5. l \in ini \ {main, unknown} /\ (l \in Listed => l \in au)
      BY <1>1, <2>4, <3>1 DEF Held
    <3> QED BY <2>4, <3>1, <3>3, <3>4, <3>5 DEF Abs!LockOp, Abs!wake_lock_destroy, TasksRun, Abs!TasksRun
  <2>5. ASSUME l # main, NEW t \in 0 .. MaxTimeout, wake_lock_timeout(l, t) PROVE Abs!LockOp(l)
    <3>1. wake_lock_internal(l, t, TRUE) /\ UNCHANGED susp /\ (TasksRun \/ (susp = "late" /\ l \in TimerLock))
      BY <2>5 DEF wake_lock_timeout
    <3>2. Abs!wake_lock_internal(l, t, TRUE)
      BY <2>5, <3>1, AbstractTimed
    <3>3. Abs!wake_lock_timeout(l, t)
      BY <3>1, <3>2 DEF Abs!wake_lock_timeout, TasksRun, Abs!TasksRun
    <3> QED BY <2>5, <3>3 DEF Abs!LockOp
  <2> QED BY <1>2, <2>1, <2>2, <2>3, <2>4, <2>5 DEF LockOp
<1>3. CASE Tick
  <2>1. UNCHANGED <<Listed, ini, au>>
    BY <1>3 DEF Tick, Listed, On
  <2>2. Abs!Tick
    BY <1>3, <2>1 DEF Tick, Abs!Tick
  <2> QED BY <2>2 DEF Abs!Next, Abs!Kernel
<1>4. CASE expire_wake_locks
  <2>1. /\ SetLists(flags, Look, inactive) /\ UNCHANGED <<left, susp, event>>
        /\ susp # "asleep" /\ timer = 0 /\ timer' = -1 /\ work' = (work \/ Look.ret = 0)
    BY <1>4 DEF expire_wake_locks
  <2>2. /\ Look.ret \in -1 .. MaxTimeout /\ Abs!HasWakeLock(Listed, au, left, Look.ret)
        /\ Abs!ExpireFrom(Listed, au, left) /\ ini' = ini
    BY <2>1, AbstractLook
  <2>3. work' = IF Look.ret = 0 THEN TRUE ELSE work
    <3>1. work \in BOOLEAN
      BY DEF LInv
    <3> QED BY <2>1, <3>1
  <2>4. \E ret \in -1 .. MaxTimeout :
          Abs!HasWakeLock(Listed, au, left, ret) /\ work' = IF ret = 0 THEN TRUE ELSE work
    BY <2>2, <2>3
  <2>5. Abs!expire_wake_locks
    BY <2>1, <2>2, <2>4, Zenon DEF Abs!expire_wake_locks
  <2> QED BY <2>5 DEF Abs!Next, Abs!Kernel
<1>5. ASSUME NEW p, NEW q, has_wake_lock(p, q), UNCHANGED left
      PROVE  Abs!has_wake_lock(p, q) /\ ini' = ini
  <2>1. SetLists(flags, Look, inactive) /\ susp' = IF Look.ret = 0 THEN p ELSE q
    BY <1>5 DEF has_wake_lock
  <2>2. /\ Look.ret \in -1 .. MaxTimeout /\ Abs!HasWakeLock(Listed, au, left, Look.ret)
        /\ Abs!ExpireFrom(Listed, au, left) /\ ini' = ini
    BY <1>5, <2>1, AbstractLook
  <2> QED BY <2>1, <2>2, Zenon DEF Abs!has_wake_lock
<1>6. CASE suspend
  <2>1. CASE /\ susp = "idle" /\ work /\ work' = FALSE /\ has_wake_lock("checked", "idle")
             /\ UNCHANGED <<left, timer, event>>
    <3>1. Abs!has_wake_lock("checked", "idle") /\ ini' = ini
      BY <1>5, <2>1
    <3>2. Abs!SuspendCheck
      BY <2>1, <3>1 DEF Abs!SuspendCheck
    <3> QED BY <3>2 DEF Abs!Next, Abs!Kernel
  <2>2. CASE susp = "pm" /\ has_wake_lock("pm", "resumed") /\ UNCHANGED <<left, timer, work, event>>
    <3>1. Abs!has_wake_lock("pm", "resumed") /\ ini' = ini
      BY <1>5, <2>2
    <3>2. Abs!FreezeCheck
      BY <2>2, <3>1 DEF Abs!FreezeCheck
    <3> QED BY <3>2 DEF Abs!Next, Abs!Kernel, Abs!PmSuspend
  <2>3. CASE susp = "pm" /\ has_wake_lock("late", "resumed") /\ UNCHANGED <<left, timer, work, event>>
    <3>1. Abs!has_wake_lock("late", "resumed") /\ ini' = ini
      BY <1>5, <2>3
    <3>2. Abs!power_suspend_late
      BY <2>3, <3>1 DEF Abs!power_suspend_late
    <3> QED BY <3>2 DEF Abs!Next, Abs!Kernel, Abs!PmSuspend
  <2>4. ASSUME UNCHANGED <<flags, active>> PROVE UNCHANGED <<Listed, ini, au>>
    BY <2>4 DEF Listed, On
  <2>5. CASE susp = "checked" /\ susp' = "pm" /\ event' = FALSE
             /\ UNCHANGED <<flags, active, inactive, left, timer, work>>
    <3>1. Abs!SuspendEntry
      BY <2>4, <2>5 DEF Abs!SuspendEntry
    <3> QED BY <3>1 DEF Abs!Next, Abs!Kernel, Abs!PmSuspend
  <2>6. CASE /\ \/ susp \in {"pm", "late"} /\ susp' = "resumed"
                \/ susp = "late" /\ susp' = "asleep"
                \/ susp = "asleep" /\ susp' = "resumed"
             /\ UNCHANGED <<flags, active, inactive, left, timer, work, event>>
    <3>1. Abs!PmFail \/ Abs!PmEnter \/ Abs!PmWake
      BY <2>4, <2>6 DEF Abs!PmFail, Abs!PmEnter, Abs!PmWake
    <3> QED BY <3>1 DEF Abs!Next, Abs!Kernel, Abs!PmSuspend
  <2>7. CASE /\ susp = "resumed" /\ susp' = "idle"
             /\ event /\ UNCHANGED <<flags, active, inactive, left, timer, work, event>>
    <3>1. Abs!SuspendExit
      BY <2>4, <2>7 DEF Abs!SuspendExit
    <3> QED BY <3>1 DEF Abs!Next, Abs!Kernel, Abs!PmSuspend
  <2>8. CASE /\ susp = "resumed" /\ susp' = "idle"
             /\ ~event /\ wake_lock_internal(unknown, UnknownTimeout, TRUE)
    <3>1. Abs!wake_lock_internal(unknown, UnknownTimeout, TRUE)
      BY <1>0, <2>8, AbstractTimed
    <3>2. Abs!SuspendExit
      BY <2>8, <3>1 DEF Abs!SuspendExit
    <3> QED BY <3>2 DEF Abs!Next, Abs!Kernel, Abs!PmSuspend
  <2> QED BY <1>6, <2>1, <2>2, <2>3, <2>5, <2>6, <2>7, <2>8 DEF suspend
<1>7. CASE UNCHANGED lvars
  BY <1>7 DEF lvars, Abs!vars, Listed, On
<1> QED BY <1>2, <1>3, <1>4, <1>6, <1>7 DEF ListNext, Abs!Next, Abs!Kernel, Abs!Drivers

(***************************************************************************)
(* The lists implement WakeLock: every step of wakelock.c on the flags,    *)
(* active_wake_locks[] and inactive_locks is a step of the specification   *)
(* that keeps sets of locks, or leaves those sets as they are.             *)
(***************************************************************************)
THEOREM ListImplements == ListSpec => ImplementsWakeLock
<1>1. ListSpec => []LInv
  BY InitLInv, NextLInv, PTL DEF ListSpec
<1> QED BY <1>1, AbstractInit, AbstractNext, PTL DEF ListSpec, ImplementsWakeLock, Abs!Spec
=============================================================================
