------------------------- MODULE SessionWakeProofs -------------------------
(***************************************************************************)
(* For any number of messages, listeners, blocks, prompts and faults: what  *)
(* the daemon takes for received is in front of the session, the oldest     *)
(* unread message is signalled at the next tool call, and a turn ends with  *)
(* unread mail only when the session was told or will be woken for it.      *)
(***************************************************************************)
EXTENDS SessionWake, WellFoundedInduction, TLAPS

Rows ==
  [ep : {"idle", "busy", "retiring"}, mode : {"interactive", "non_interactive"},
   armed : BOOLEAN, bell : {"seen", "new", "captured", "newer"},
   del : [Message -> {"none", "unread", "read"}],
   adm : [Message -> {"closed", "opened", "retried"}],
   blocks : [Message -> 0..StopBlockCap],
   pres : [Message -> {"none", "pending", "late", "acked", "missed"}],
   on : [Message -> Listener \cup {NoListener}], missed : SUBSET Message,
   lst : [Listener -> {"none", "parked", "attached", "waking", "ended"}],
   expired : SUBSET Listener, dropped : SUBSET Listener]
Holder == [pc : {"none", "start", "wait", "stage", "ack", "duplicate", "emit"},
           m : Message \cup {NoMessage}, up : BOOLEAN]

(* Where a holder is past the wait, it has a message.                        *)
Carries ==
  \A l \in Listener :
     AtPc(l, {"stage", "ack", "duplicate", "emit"}) => holder[l].m \in Message

(* Of a message that was never committed nobody knows.                       *)
Unborn ==
  \A m \in Message : db.del[m] = "none" =>
     /\ db.pres[m] = "none" /\ m \notin woke
     /\ \A l \in Listener : holder[l].m # m

(* Vouched for as shown: by the daemon, by the wake ledger, by a holder that  *)
(* is about to acknowledge.                                                  *)
Shown(m) == m \in scratch \cup told
Vouched(m) ==
  \/ db.pres[m] = "acked" \/ m \in woke
  \/ \E l \in Listener : AtPc(l, {"ack", "duplicate"}) /\ holder[l].m = m
ShownInv == \A m \in Unread(db) : Vouched(m) => Shown(m)

(* A bell that does not ring was heard: its hook named the oldest message and *)
(* opened it, so that receiving it rings for the next.                       *)
RingInv ==
  /\ (pre # "none") <=> db.bell \in {"captured", "newer"}
  /\ Unread(db) # {} =>
        Rung \/ (Shown(Min(Unread(db))) /\ db.adm[Min(Unread(db))] # "closed")

(* As long as nothing has failed: one listener is active, its holder runs and *)
(* is connected, the endpoint is idle, and it wakes for one message unless    *)
(* there is none left to wake for.                                           *)
Parked(l) ==
  /\ \A k \in Active(db) : k = l
  /\ db.ep = "idle"
  /\ AtPc(l, {"start", "wait", "stage", "ack", "duplicate"})
  /\ PendingOn(db, l) # {} \/ \A m \in Unread(db) : db.pres[m] = "acked"
  /\ db.lst[l] = "waking" <=> PendingOn(db, l) # {}
  /\ db.mode = "interactive" => db.armed

Quiet ==
  /\ db.expired = {} /\ db.dropped = {} /\ db.ep # "retiring"
  /\ \A m \in Message : db.pres[m] # "late"
  /\ \A m \in Message : db.pres[m] = "pending" => db.on[m] \in Active(db)
  /\ \A m, n \in Message : db.pres[m] = "pending" /\ db.pres[n] = "pending" => m = n
  /\ \A l \in Active(db) : Parked(l)
  /\ \A l \in Listener : AtPc(l, {"wait", "stage", "ack", "duplicate"}) => Connected(l)
  /\ db.mode = "non_interactive" =>
       /\ \A l, k \in Listener : Running(l) /\ Running(k) => l = k
       /\ host = "working" => Active(db) = {} /\ \A l \in Listener : ~Running(l)
QuietInv == faults = 0 => Quiet

IInv == TypeOK /\ Carries /\ Unborn /\ ShownInv /\ RingInv /\ QuietInv

-----------------------------------------------------------------------------
(* The oldest of some messages. *)

Less == {ss \in Nat \X Nat : ss[1] < ss[2]}

LEMMA Oldest ==
  ASSUME NEW S \in SUBSET Nat, S # {}
  PROVE  Min(S) \in S /\ \A x \in S : Min(S) <= x
<1>1. IsWellFoundedOn(Less, Nat)
  BY NatLessThanWellFounded DEF OpToRel, Less
<1>2. \E x \in S : \A y \in S : ~ (<<y, x>> \in Less)
  BY <1>1, WFMin
<1>3. PICK x \in S : \A y \in S : ~ (<<y, x>> \in Less)
  BY <1>2
<1>4. \A y \in S : x <= y
  <2> SUFFICES ASSUME NEW y \in S, y < x  PROVE  FALSE
    OBVIOUS
  <2>1. <<y, x>> \in Nat \X Nat /\ <<y, x>>[1] < <<y, x>>[2]
    OBVIOUS
  <2>2. <<y, x>> \in Less
    BY <2>1 DEF Less
  <2> QED  BY <1>3, <2>2
<1> QED  BY <1>3, <1>4 DEF Min

LEMMA Ids == Message \subseteq Nat \ {0} /\ Listener \subseteq Nat \ {0}
BY WakeAssumption DEF Message, Listener

LEMMA OldestOf ==
  ASSUME NEW S \in SUBSET Message, S # {}
  PROVE  Min(S) \in S /\ Min(S) \in Message /\ \A x \in S : Min(S) <= x
BY Ids, Oldest

(* An older message that stays keeps its place.                              *)
LEMMA SameOldest ==
  ASSUME NEW S \in SUBSET Message, S # {}, NEW T \in SUBSET S, Min(S) \in T
  PROVE  Min(T) = Min(S)
<1>1. Min(T) \in T /\ Min(T) <= Min(S)  BY OldestOf
<1>2. Min(S) <= Min(T)  BY <1>1, OldestOf
<1>3. Min(S) \in Nat /\ Min(T) \in Nat  BY OldestOf, Ids
<1> QED  BY <1>1, <1>2, <1>3

-----------------------------------------------------------------------------
(* What each transaction changes of the rows.                                *)

LEMMA Fields ==
  ASSUME NEW d \in Rows
  PROVE  /\ d.ep \in {"idle", "busy", "retiring"} /\ d.mode \in {"interactive", "non_interactive"}
         /\ d.armed \in BOOLEAN /\ d.bell \in {"seen", "new", "captured", "newer"}
         /\ d.del \in [Message -> {"none", "unread", "read"}]
         /\ d.adm \in [Message -> {"closed", "opened", "retried"}]
         /\ d.blocks \in [Message -> 0..StopBlockCap]
         /\ d.pres \in [Message -> {"none", "pending", "late", "acked", "missed"}]
         /\ d.on \in [Message -> Listener \cup {NoListener}] /\ d.missed \in SUBSET Message
         /\ d.lst \in [Listener -> {"none", "parked", "attached", "waking", "ended"}]
         /\ d.expired \in SUBSET Listener /\ d.dropped \in SUBSET Listener
BY DEF Rows

(* All fields but those named are the same.                                  *)
SameMail(d, e) == e.del = d.del
SameEp(d, e) == e.ep = d.ep /\ e.mode = d.mode /\ e.armed = d.armed
SameWake(d, e) ==
  /\ e.pres = d.pres /\ e.on = d.on /\ e.missed = d.missed /\ e.lst = d.lst
  /\ e.expired = d.expired /\ e.dropped = d.dropped
SameBell(d, e) == e.bell = d.bell
SameAdm(d, e) == e.adm = d.adm /\ e.blocks = d.blocks

LEMMA RefreshRows ==
  ASSUME NEW d \in Rows
  PROVE  LET e == RefreshWatermark(d)
         IN  /\ e \in Rows /\ e.bell \in {"new", "newer"}
             /\ e.bell = "newer" <=> d.bell \in {"captured", "newer"}
             /\ SameMail(d, e) /\ SameEp(d, e) /\ SameWake(d, e) /\ SameAdm(d, e)
BY DEF RefreshWatermark, Rows, SameMail, SameEp, SameWake, SameAdm

LEMMA OpenRows ==
  ASSUME NEW d \in Rows
  PROVE  LET e == OpenOldestUnread(d)
         IN  /\ e \in Rows
             /\ SameMail(d, e) /\ SameEp(d, e) /\ SameWake(d, e) /\ SameBell(d, e)
             /\ \A m \in Message : d.adm[m] # "closed" => e.adm[m] # "closed"
             /\ Unread(d) # {} => e.adm[Min(Unread(d))] # "closed"
<1>1. CASE Unread(d) = {}
  BY <1>1 DEF OpenOldestUnread, SameMail, SameEp, SameWake, SameBell
<1>2. CASE Unread(d) # {}
  <2> DEFINE m == Min(Unread(d))
  <2>1. m \in Message  BY <1>2, OldestOf DEF Unread
  <2> HIDE DEF m
  <2>2. OpenOldestUnread(d) = [d EXCEPT !.adm[m] = IF @ = "closed" THEN "opened" ELSE @]
    BY <1>2 DEF OpenOldestUnread, m
  <2> DEFINE e == OpenOldestUnread(d)
  <2>3. e \in Rows  BY <2>1, <2>2 DEF Rows
  <2>4. SameMail(d, e) /\ SameEp(d, e) /\ SameWake(d, e) /\ SameBell(d, e)
    BY <2>2 DEF Rows, SameMail, SameEp, SameWake, SameBell
  <2>5. e.adm = [d.adm EXCEPT ![m] = IF @ = "closed" THEN "opened" ELSE @]
    BY <2>2 DEF Rows
  <2>6. \A n \in Message : e.adm[n] = IF n = m /\ d.adm[n] = "closed" THEN "opened" ELSE d.adm[n]
    BY <2>1, <2>5, Fields
  <2>7. e.adm[m] # "closed"  BY <2>1, <2>6
  <2>8. \A n \in Message : d.adm[n] # "closed" => e.adm[n] # "closed"  BY <2>6
  <2> QED  BY <2>3, <2>4, <2>7, <2>8 DEF m
<1> QED  BY <1>1, <1>2

LEMMA PresentRows ==
  ASSUME NEW d \in Rows, NEW l \in Listener, NEW m \in Message
  PROVE  LET e == Present(d, l, m)
         IN  /\ e \in Rows
             /\ SameMail(d, e) /\ SameEp(d, e) /\ SameBell(d, e) /\ SameAdm(d, e)
             /\ e.missed = d.missed /\ e.expired = d.expired /\ e.dropped = d.dropped
             /\ e.pres = [d.pres EXCEPT ![m] = "pending"] /\ e.on = [d.on EXCEPT ![m] = l]
             /\ e.lst = [d.lst EXCEPT ![l] = "waking"]
BY DEF Present, Rows, SameMail, SameEp, SameBell, SameAdm

LEMMA MissRows ==
  ASSUME NEW d \in Rows, NEW ms \in SUBSET Message
  PROVE  LET e == Miss(d, ms)
         IN  /\ e \in Rows
             /\ SameMail(d, e) /\ SameEp(d, e) /\ SameBell(d, e) /\ SameAdm(d, e)
             /\ e.lst = d.lst /\ e.expired = d.expired /\ e.dropped = d.dropped
             /\ \A m \in Message : /\ e.pres[m] = IF m \in ms THEN "missed" ELSE d.pres[m]
                                   /\ e.on[m] = IF m \in ms THEN NoListener ELSE d.on[m]
BY DEF Miss, Rows, SameMail, SameEp, SameBell, SameAdm

LEMMA EndRows ==
  ASSUME NEW d \in Rows, NEW ls \in SUBSET Listener
  PROVE  LET e == EndListeners(d, ls)
         IN  /\ e \in Rows
             /\ SameMail(d, e) /\ SameEp(d, e) /\ SameBell(d, e) /\ SameAdm(d, e)
             /\ e.pres = d.pres /\ e.on = d.on /\ e.missed = d.missed
             /\ e.expired = d.expired \ ls /\ e.dropped = d.dropped \ ls
             /\ \A l \in Listener : e.lst[l] = IF l \in ls THEN "ended" ELSE d.lst[l]
BY DEF EndListeners, Rows, SameMail, SameEp, SameBell, SameAdm

LEMMA ReleaseRows ==
  ASSUME NEW d \in Rows, NEW ls \in SUBSET Listener
  PROVE  LET e == Release(d, ls)
         IN  /\ e \in Rows
             /\ SameMail(d, e) /\ SameEp(d, e) /\ SameBell(d, e) /\ SameAdm(d, e)
             /\ e.expired = d.expired \ ls /\ e.dropped = d.dropped \ ls
             /\ \A l \in Listener : e.lst[l] = IF l \in ls THEN "ended" ELSE d.lst[l]
             /\ \A m \in Message :
                   IF d.pres[m] \in {"pending", "late"} /\ d.on[m] \in ls
                   THEN e.pres[m] = "missed" /\ e.on[m] = NoListener
                   ELSE e.pres[m] = d.pres[m] /\ e.on[m] = d.on[m]
<1> DEFINE ms == UNION {PendingOn(d, l) : l \in ls}
           f == Miss(d, ms)
<1>1. \A m \in Message : m \in ms <=> d.pres[m] \in {"pending", "late"} /\ d.on[m] \in ls
  BY DEF PendingOn
<1>2. ms \in SUBSET Message  BY DEF PendingOn
<1> HIDE DEF ms
<1>3. Release(d, ls) = EndListeners(f, ls)  BY DEF Release, ms
<1>4. /\ f \in Rows
      /\ SameMail(d, f) /\ SameEp(d, f) /\ SameBell(d, f) /\ SameAdm(d, f)
      /\ f.lst = d.lst /\ f.expired = d.expired /\ f.dropped = d.dropped
      /\ \A m \in Message : /\ f.pres[m] = IF m \in ms THEN "missed" ELSE d.pres[m]
                            /\ f.on[m] = IF m \in ms THEN NoListener ELSE d.on[m]
  BY <1>2, MissRows
<1> HIDE DEF f
<1> QED  BY <1>1, <1>3, <1>4, EndRows DEF SameMail, SameEp, SameBell, SameAdm

LEMMA IdleRows ==
  ASSUME NEW d \in Rows
  PROVE  LET e == MarkIdle(d)
         IN  /\ e \in Rows
             /\ SameMail(d, e) /\ SameBell(d, e) /\ SameAdm(d, e) /\ SameWake(d, e)
             /\ e.mode = d.mode /\ e.armed = d.armed
             /\ e.ep = IF d.ep = "retiring" THEN d.ep ELSE "idle"
BY DEF MarkIdle, Rows, SameMail, SameBell, SameAdm, SameWake

LEMMA AckedRows ==
  ASSUME NEW d \in Rows, NEW l \in Listener, NEW m \in Message
  PROVE  LET e == Acked(d, l, m)
         IN  /\ e \in Rows
             /\ SameMail(d, e) /\ SameBell(d, e)
             /\ \A n \in Message : d.adm[n] # "closed" => e.adm[n] # "closed"
             /\ e.mode = d.mode /\ e.armed = d.armed
             /\ e.ep = IF d.ep = "retiring" THEN d.ep ELSE "busy"
             /\ e.expired = d.expired \ {l} /\ e.dropped = d.dropped \ {l}
             /\ \A k \in Listener : e.lst[k] = IF k = l THEN "ended" ELSE d.lst[k]
             /\ e.pres = [d.pres EXCEPT ![m] = "acked"]
             /\ e.on = [d.on EXCEPT ![m] = NoListener]
<1> DEFINE a == [d EXCEPT !.pres[m] = "acked", !.on[m] = NoListener]
           b == EndListeners(a, {l})
           c == [b EXCEPT !.ep = IF @ = "retiring" THEN @ ELSE "busy"]
<1>1. /\ a \in Rows /\ SameMail(d, a) /\ SameEp(d, a) /\ SameBell(d, a) /\ SameAdm(d, a)
      /\ a.lst = d.lst /\ a.expired = d.expired /\ a.dropped = d.dropped
      /\ a.pres = [d.pres EXCEPT ![m] = "acked"] /\ a.on = [d.on EXCEPT ![m] = NoListener]
  BY DEF Rows, SameMail, SameEp, SameBell, SameAdm
<1> HIDE DEF a
<1>2. /\ b \in Rows
      /\ SameMail(a, b) /\ SameEp(a, b) /\ SameBell(a, b) /\ SameAdm(a, b)
      /\ b.pres = a.pres /\ b.on = a.on
      /\ b.expired = a.expired \ {l} /\ b.dropped = a.dropped \ {l}
      /\ \A k \in Listener : b.lst[k] = IF k \in {l} THEN "ended" ELSE a.lst[k]
  BY <1>1, EndRows
<1> HIDE DEF b
<1>3. /\ c \in Rows
      /\ SameMail(b, c) /\ SameWake(b, c) /\ SameBell(b, c) /\ SameAdm(b, c)
      /\ c.mode = b.mode /\ c.armed = b.armed
      /\ c.ep = IF b.ep = "retiring" THEN b.ep ELSE "busy"
  BY <1>2 DEF Rows, SameMail, SameWake, SameBell, SameAdm
<1>4. Acked(d, l, m) = OpenOldestUnread(c)  BY DEF Acked, a, b, c
<1> HIDE DEF c
<1>5. LET e == OpenOldestUnread(c)
      IN  /\ e \in Rows
          /\ SameMail(c, e) /\ SameEp(c, e) /\ SameWake(c, e) /\ SameBell(c, e)
          /\ \A n \in Message : c.adm[n] # "closed" => e.adm[n] # "closed"
  BY <1>3, OpenRows
<1> QED  BY <1>1, <1>2, <1>3, <1>4, <1>5 DEF SameMail, SameEp, SameWake, SameBell, SameAdm

(* The bell is left alone or rings.                                          *)
Heard(d, e) ==
  \/ e.bell = d.bell
  \/ e.bell \in {"new", "newer"} /\ (e.bell = "newer" <=> d.bell \in {"captured", "newer"})
(* Nothing is acknowledged, and what was never committed not presented.      *)
NoneAcked(d, e) ==
  \A m \in Message : /\ e.pres[m] = "acked" => d.pres[m] = "acked"
                     /\ d.pres[m] = "none" /\ d.del[m] = "none" => e.pres[m] = "none"
(* What the daemon's listeners do to its rows otherwise.                     *)
Wakes(d, e) ==
  /\ e \in Rows /\ SameMail(d, e) /\ SameAdm(d, e) /\ Heard(d, e) /\ NoneAcked(d, e)
  /\ e.mode = d.mode /\ e.armed = d.armed

LEMMA ReleaseWakes ==
  ASSUME NEW d \in Rows, NEW ls \in SUBSET Listener
  PROVE  Wakes(d, Release(d, ls))
BY ReleaseRows DEF Wakes, SameEp, SameBell, Heard, NoneAcked

LEMMA ExpireRows ==
  ASSUME NEW d \in Rows, NEW l \in Listener
  PROVE  Wakes(d, ExpirePark(d, l))
<1> DEFINE e == EndListeners(d, {l})
           f == [e EXCEPT !.ep = "retiring"]
<1>1. /\ e \in Rows /\ SameMail(d, e) /\ SameEp(d, e) /\ SameBell(d, e) /\ SameAdm(d, e) /\ e.pres = d.pres
  BY EndRows
<1> HIDE DEF e
<1>2. /\ f \in Rows /\ SameMail(e, f) /\ SameBell(e, f) /\ SameAdm(e, f) /\ SameWake(e, f)
      /\ f.mode = e.mode /\ f.armed = e.armed
  BY <1>1 DEF Rows, SameMail, SameBell, SameAdm, SameWake
<1>3. ExpirePark(d, l) \in {e, f}  BY DEF ExpirePark, e
<1> HIDE DEF f
<1> QED  BY <1>1, <1>2, <1>3 DEF Wakes, SameMail, SameEp, SameBell, SameAdm, SameWake, Heard, NoneAcked

LEMMA MissLateRows ==
  ASSUME NEW d \in Rows, NEW l \in Listener, NEW lost
  PROVE  Wakes(d, MissLate(d, l, lost))
<1> DEFINE gone    == IF lost THEN PendingOn(d, l) ELSE Late(d, l)
           second  == SecondMiss(d, l)
           retires == second # {} /\ d.ep # "retiring" /\ d.mode = "interactive"
           a       == Miss(d, gone)
           e       == EndListeners(a, {l})
           rings   == d.ep # "retiring" /\ \E m \in gone : retires => \A n \in second : m < n
           moved   == [e EXCEPT !.ep = IF retires THEN "retiring"
                                       ELSE IF @ = "busy" /\ Late(d, l) \ d.missed # {} THEN "idle"
                                       ELSE @]
<1>1. MissLate(d, l, lost) = IF rings THEN RefreshWatermark(moved) ELSE moved
  BY DEF MissLate
<1>2. gone \in SUBSET Message /\ \A m \in gone : d.pres[m] \in {"pending", "late"}
  BY DEF PendingOn, Late
<1>3. retires \in BOOLEAN  OBVIOUS
<1> HIDE DEF gone, second, retires, rings
<1>4. /\ a \in Rows
      /\ SameMail(d, a) /\ SameEp(d, a) /\ SameBell(d, a) /\ SameAdm(d, a)
      /\ \A m \in Message : a.pres[m] = IF m \in gone THEN "missed" ELSE d.pres[m]
  BY <1>2, MissRows
<1> HIDE DEF a
<1>5. /\ e \in Rows /\ SameMail(a, e) /\ SameEp(a, e) /\ SameBell(a, e) /\ SameAdm(a, e)
      /\ e.pres = a.pres
  BY <1>4, EndRows
<1> HIDE DEF e
<1>6. /\ moved \in Rows /\ SameMail(e, moved) /\ SameBell(e, moved) /\ SameAdm(e, moved)
      /\ SameWake(e, moved) /\ moved.mode = e.mode /\ moved.armed = e.armed
  BY <1>5 DEF Rows, SameMail, SameBell, SameAdm, SameWake
<1> HIDE DEF moved
<1>7. NoneAcked(d, moved)
  BY <1>2, <1>4, <1>5, <1>6 DEF NoneAcked, SameWake
<1>8. Wakes(d, moved)
  BY <1>4, <1>5, <1>6, <1>7 DEF Wakes, SameMail, SameEp, SameBell, SameAdm, Heard
<1>9. Wakes(d, RefreshWatermark(moved))
  <2>1. LET e2 == RefreshWatermark(moved)
        IN  /\ e2 \in Rows /\ e2.bell \in {"new", "newer"}
            /\ e2.bell = "newer" <=> moved.bell \in {"captured", "newer"}
            /\ SameMail(moved, e2) /\ SameEp(moved, e2) /\ SameWake(moved, e2) /\ SameAdm(moved, e2)
    BY <1>6, RefreshRows
  <2>2. moved.bell = d.bell  BY <1>4, <1>5, <1>6 DEF SameBell
  <2> QED  BY <1>8, <2>1, <2>2 DEF Wakes, SameMail, SameEp, SameWake, SameAdm, Heard, NoneAcked
<1> QED  BY <1>1, <1>8, <1>9

(* The user's prompt ends what is parked.                                    *)
LEMMA BusyRows ==
  ASSUME NEW d \in Rows
  PROVE  LET e == SetBusy(d)
         IN  /\ Wakes(d, e)
             /\ d.ep # "retiring" =>
                  /\ e.ep = "busy"
                  /\ e.expired = d.expired \ Active(d) /\ e.dropped = d.dropped \ Active(d)
                  /\ \A l \in Listener : e.lst[l] = IF l \in Active(d) THEN "ended" ELSE d.lst[l]
                  /\ \A m \in Message :
                        IF d.pres[m] \in {"pending", "late"} /\ d.on[m] \in Active(d)
                        THEN e.pres[m] = "missed" /\ e.on[m] = NoListener
                        ELSE e.pres[m] = d.pres[m] /\ e.on[m] = d.on[m]
<1>1. CASE d.ep = "retiring"
  BY <1>1 DEF SetBusy, Wakes, SameMail, SameAdm, Heard, NoneAcked
<1>2. CASE d.ep # "retiring"
  <2> DEFINE b == [d EXCEPT !.ep = "busy"]
             e == Release(b, Active(d))
             f == RefreshWatermark(e)
  <2>1. /\ b \in Rows /\ SameMail(d, b) /\ SameBell(d, b) /\ SameAdm(d, b) /\ SameWake(d, b)
        /\ b.ep = "busy" /\ b.mode = d.mode /\ b.armed = d.armed
    BY DEF Rows, SameMail, SameBell, SameAdm, SameWake
  <2>2. SetBusy(d) \in {e, f}  BY <1>2 DEF SetBusy
  <2>3. Active(d) \in SUBSET Listener  BY DEF Active
  <2> HIDE DEF b
  <2>4. /\ e \in Rows
        /\ SameMail(b, e) /\ SameEp(b, e) /\ SameBell(b, e) /\ SameAdm(b, e)
        /\ e.expired = b.expired \ Active(d) /\ e.dropped = b.dropped \ Active(d)
        /\ \A l \in Listener : e.lst[l] = IF l \in Active(d) THEN "ended" ELSE b.lst[l]
        /\ \A m \in Message :
              IF b.pres[m] \in {"pending", "late"} /\ b.on[m] \in Active(d)
              THEN e.pres[m] = "missed" /\ e.on[m] = NoListener
              ELSE e.pres[m] = b.pres[m] /\ e.on[m] = b.on[m]
    BY <2>1, <2>3, ReleaseRows
  <2> HIDE DEF e
  <2>5. /\ f \in Rows /\ f.bell \in {"new", "newer"}
        /\ f.bell = "newer" <=> e.bell \in {"captured", "newer"}
        /\ SameMail(e, f) /\ SameEp(e, f) /\ SameWake(e, f) /\ SameAdm(e, f)
    BY <2>4, RefreshRows
  <2> HIDE DEF f
  <2> QED
    BY <1>2, <2>1, <2>2, <2>4, <2>5
       DEF Wakes, SameMail, SameEp, SameBell, SameAdm, SameWake, Heard, NoneAcked
<1> QED  BY <1>1, <1>2

-----------------------------------------------------------------------------
(* Steps that leave most of the invariant alone.                             *)

(* What the session, the daemon and the holders do about listeners: nothing    *)
(* is read, staged or told, and no holder gets to the point of acknowledging.  *)
LEMMA WakingInv ==
  ASSUME IInv, Wakes(db, db'), UNCHANGED <<pre, scratch, told, woke>>,
         \A l \in Listener :
            /\ AtPc(l, {"ack", "duplicate"})' => AtPc(l, {"ack", "duplicate"}) /\ holder'[l].m = holder[l].m
            /\ \A m \in Message : db.del[m] = "none" => holder'[l].m # m
  PROVE  Unborn' /\ ShownInv' /\ RingInv'
<1>1. db'.del = db.del /\ db'.adm = db.adm /\ Unread(db') = Unread(db)
  BY DEF Wakes, SameMail, SameAdm, Unread
<1>2. Unborn'  BY <1>1 DEF IInv, Unborn, Wakes, NoneAcked
<1>3. ShownInv'
  <2> SUFFICES ASSUME NEW m \in Unread(db), Vouched(m)'  PROVE Shown(m)
    BY <1>1 DEF ShownInv, Shown
  <2>1. m \in Message  BY DEF Unread
  <2>2. Vouched(m)  BY <2>1 DEF Vouched, Wakes, NoneAcked
  <2> QED  BY <2>2 DEF IInv, ShownInv
<1>4. RingInv'
  <2>1. CASE db'.bell = db.bell
    BY <1>1, <2>1 DEF IInv, RingInv, Rung, Shown
  <2>2. CASE db'.bell \in {"new", "newer"} /\ (db'.bell = "newer" <=> db.bell \in {"captured", "newer"})
    BY <2>2 DEF IInv, RingInv, Rung
  <2> QED  BY <2>1, <2>2 DEF Wakes, Heard
<1> QED  BY <1>2, <1>3, <1>4

(* What the turn does: nobody parks, and the daemon's listeners stay.          *)
Turns ==
  /\ db' \in Rows /\ UNCHANGED holder /\ SameWake(db, db')
  /\ db'.ep = db.ep /\ db'.mode = db.mode /\ (db.armed => db'.armed)
  /\ Unread(db') \subseteq Unread(db)

LEMMA TurnQuiet ==
  ASSUME IInv, Turns, faults' \in {faults, faults + 1}, faults' = 0 => UNCHANGED host
  PROVE  QuietInv'
<1> SUFFICES ASSUME faults' = 0  PROVE Quiet'
  BY DEF QuietInv
<1>1. Quiet  BY DEF IInv, QuietInv, TypeOK
<1>2. Active(db') = Active(db)  BY DEF Active, Turns, SameWake
<1>3. \A l : PendingOn(db', l) = PendingOn(db, l)  BY DEF PendingOn, Turns, SameWake
<1>4. ASSUME NEW l \in Active(db)  PROVE Parked(l)'
  <2>1. Parked(l)  BY <1>1 DEF Quiet
  <2>2. \A pcs : AtPc(l, pcs)' <=> AtPc(l, pcs)  BY DEF AtPc, Turns
  <2> QED  BY <1>2, <1>3, <2>1, <2>2 DEF Parked, Turns, SameWake
<1>5. \A l, pcs : AtPc(l, pcs)' <=> AtPc(l, pcs)  BY DEF AtPc, Turns
<1> QED
  BY <1>1, <1>2, <1>4, <1>5 DEF Quiet, Turns, SameWake, Connected, Running

LEMMA TurnUnborn ==
  ASSUME IInv, Turns, UNCHANGED woke, \A m \in Message : db'.del[m] = "none" => db.del[m] = "none"
  PROVE  Carries' /\ Unborn'
BY DEF IInv, Carries, Unborn, Turns, SameWake, AtPc

LEMMA TurnShown ==
  ASSUME IInv, Turns, UNCHANGED woke, \A m \in Unread(db') : Shown(m) => Shown(m)'
  PROVE  ShownInv'
<1> SUFFICES ASSUME NEW m \in Unread(db'), Vouched(m)'  PROVE Shown(m)'
  BY DEF ShownInv
<1>1. m \in Unread(db)  BY DEF Turns
<1>2. Vouched(m)  BY DEF Vouched, Turns, SameWake, AtPc
<1> QED  BY <1>1, <1>2 DEF IInv, ShownInv

LEMMA InitInv == Init => IInv
<1> SUFFICES ASSUME Init  PROVE IInv
  OBVIOUS
<1>1. PICK mode \in {"interactive", "non_interactive"} :
       db = [ep |-> "busy", mode |-> mode, armed |-> FALSE, bell |-> "seen",
             del |-> [m \in Message |-> "none"], adm |-> [m \in Message |-> "closed"],
             blocks |-> [m \in Message |-> 0], pres |-> [m \in Message |-> "none"],
             on |-> [m \in Message |-> NoListener], missed |-> {},
             lst |-> [l \in Listener |-> "none"], expired |-> {}, dropped |-> {}]
  BY DEF Init
<1>2. holder = [l \in Listener |-> NoHolder] /\ pre = "none"  BY DEF Init
<1>3. db \in Rows
  BY <1>1, WakeAssumption DEF Rows
<1>4. TypeOK
  <2>1. holder \in [Listener -> Holder]  BY <1>2 DEF Holder, NoHolder
  <2>2. /\ host = "working" /\ pre = "none" /\ scratch = {} /\ told = {} /\ woke = {}
        /\ suppressed = FALSE /\ prompts = 0 /\ faults = 0
    BY DEF Init
  <2> QED  BY <1>3, <2>1, <2>2 DEF TypeOK, Rows, Holder
<1>5. \A m \in Message : db.del[m] = "none" /\ db.pres[m] = "none"  BY <1>1
<1>6. Unread(db) = {}  BY <1>5 DEF Unread
<1>7. \A l \in Listener : holder[l].pc = "none" /\ holder[l].m = 0 /\ db.lst[l] = "none"
  BY <1>1, <1>2 DEF NoHolder, NoMessage
<1>8. Carries /\ Unborn
  BY <1>5, <1>7, Ids DEF Carries, Unborn, AtPc, Init
<1>9. ShownInv /\ RingInv  BY <1>1, <1>2, <1>6 DEF ShownInv, RingInv
<1>10. Active(db) = {}  BY <1>7 DEF Active
<1>11. Quiet  BY <1>1, <1>5, <1>7, <1>10 DEF Quiet, AtPc, Running
<1> QED  BY <1>4, <1>8, <1>9, <1>11 DEF IInv, QuietInv

-----------------------------------------------------------------------------
(* Types, and what a turn keeps. *)

LEMMA Typed ==
  ASSUME IInv
  PROVE  /\ db \in Rows /\ holder \in [Listener -> Holder] /\ Unread(db) \in SUBSET Message
         /\ scratch \subseteq Message /\ told \subseteq Message /\ woke \subseteq Message
         /\ prompts \in Nat /\ faults \in Nat /\ pre \in {"none", "captured", "peeked"}
         /\ host \in {"idle", "working"} /\ suppressed \in BOOLEAN
BY DEF IInv, TypeOK, Rows, Holder, Unread

LEMMA TypedNext ==
  ASSUME db' \in Rows, holder' \in [Listener -> Holder],
         scratch' \subseteq Message, told' \subseteq Message, woke' \subseteq Message,
         prompts' \in Nat, faults' \in Nat, pre' \in {"none", "captured", "peeked"},
         host' \in {"idle", "working"}, suppressed' \in BOOLEAN
  PROVE  TypeOK'
BY DEF TypeOK, Rows, Holder

LEMMA OldestUnread ==
  ASSUME IInv, Unread(db) # {}
  PROVE  Min(Unread(db)) \in Unread(db) /\ Min(Unread(db)) \in Message
BY Typed, OldestOf

LEMMA TurnInv ==
  ASSUME IInv, Turns, RingInv', UNCHANGED <<woke, suppressed, prompts>>,
         faults' \in {faults, faults + 1}, faults' = 0 => UNCHANGED host,
         host' \in {"idle", "working"}, pre' \in {"none", "captured", "peeked"},
         scratch' \subseteq Message, told' \subseteq Message,
         \A m \in Message : db'.del[m] = "none" => db.del[m] = "none",
         \A m \in Unread(db') : Shown(m) => Shown(m)'
  PROVE  IInv'
<1>1. TypeOK'  BY Typed, TypedNext DEF Turns
<1> QED  BY <1>1, TurnQuiet, TurnUnborn, TurnShown DEF IInv

(* The bell is not touched, and what was heard of is still there.              *)
LEMMA RingSame ==
  ASSUME IInv, Unread(db') = Unread(db), db'.bell = db.bell,
         (pre' # "none") <=> (pre # "none"), pre = "captured" => pre' = "captured",
         \A m \in Message : db.adm[m] # "closed" => db'.adm[m] # "closed",
         \A m \in Unread(db) : Shown(m) => Shown(m)'
  PROVE  RingInv'
BY OldestUnread DEF IInv, RingInv, Rung

(* Turns without the daemon's rows.                                          *)
LEMMA OwnTurn ==
  ASSUME IInv, UNCHANGED db, UNCHANGED holder
  PROVE  Turns /\ Unread(db') = Unread(db) /\ db'.bell = db.bell
BY Typed DEF Turns, SameWake

LEMMA ArmInv ==
  ASSUME IInv, Arm  PROVE IInv'
<1>1. db \in Rows /\ db' = [db EXCEPT !.armed = TRUE]  BY Typed DEF Arm
<1>2. /\ db' \in Rows /\ SameWake(db, db') /\ SameAdm(db, db') /\ SameMail(db, db')
      /\ db'.ep = db.ep /\ db'.mode = db.mode /\ db'.armed /\ db'.bell = db.bell
  BY <1>1 DEF Rows, SameWake, SameAdm, SameMail
<1>3. Unread(db') = Unread(db)  BY <1>2 DEF Unread, SameMail
<1>4. Turns  BY <1>2, <1>3 DEF Turns, Arm
<1>5. RingInv'  BY <1>2, <1>3, RingSame DEF Arm, session, SameAdm, Shown
<1> QED  BY <1>2, <1>4, <1>5, TurnInv, Typed DEF Arm, session, counts, Shown, SameMail

LEMMA BellRows ==
  ASSUME NEW d \in Rows, NEW b \in {"seen", "new", "captured", "newer"}
  PROVE  LET e == [d EXCEPT !.bell = b]
         IN  /\ e \in Rows /\ e.bell = b /\ Unread(e) = Unread(d)
             /\ SameMail(d, e) /\ SameEp(d, e) /\ SameWake(d, e) /\ SameAdm(d, e)
BY DEF Rows, SameMail, SameEp, SameWake, SameAdm, Unread

(* A step that does nothing but set the bell and the hook.                     *)
LEMMA BellInv ==
  ASSUME IInv, NEW b \in {"seen", "new", "captured", "newer"}, db' = [db EXCEPT !.bell = b],
         UNCHANGED <<holder, host, scratch, told, woke, suppressed, prompts>>,
         faults' \in {faults, faults + 1}, pre' \in {"none", "captured", "peeked"},
         (pre' # "none") <=> b \in {"captured", "newer"},
         \/ b = "new" \/ (b = "captured" /\ pre' = "captured")
         \/ ~Rung
  PROVE  IInv'
<1>1. /\ db' \in Rows /\ db'.bell = b /\ Unread(db') = Unread(db)
      /\ SameMail(db, db') /\ SameEp(db, db') /\ SameWake(db, db') /\ SameAdm(db, db')
  BY BellRows, Typed
<1>2. RingInv'
  BY <1>1 DEF IInv, RingInv, Rung, Shown, SameAdm
<1>3. Turns  BY <1>1 DEF Turns, SameEp
<1> QED  BY <1>1, <1>2, <1>3, TurnInv, Typed DEF Shown, SameMail

LEMMA CaptureInv ==
  ASSUME IInv, PreToolCapture  PROVE IInv'
BY BellInv, Typed DEF PreToolCapture, counts

LEMMA MarkInv ==
  ASSUME IInv, PreToolMark  PROVE IInv'
<1> DEFINE b == IF db.bell = "newer" THEN "new" ELSE "seen"
<1>1. db \in Rows /\ pre = "peeked" /\ db' = [db EXCEPT !.bell = b]
  BY Typed DEF PreToolMark, MarkCaptured
<1>2. db.bell # "newer" => ~Rung  BY <1>1 DEF IInv, RingInv, Rung
<1> QED  BY <1>1, <1>2, BellInv, Typed DEF PreToolMark, MarkCaptured, counts

LEMMA MarkNothingInv ==
  ASSUME IInv, MarkNothing, faults' \in {faults, faults + 1}, UNCHANGED prompts  PROVE IInv'
BY BellInv, Typed DEF MarkNothing

LEMMA PeekInv ==
  ASSUME IInv, PreToolPeek  PROVE IInv'
<1>1. /\ db' \in Rows
      /\ SameMail(db, db') /\ SameEp(db, db') /\ SameWake(db, db') /\ SameBell(db, db')
      /\ \A m \in Message : db.adm[m] # "closed" => db'.adm[m] # "closed"
      /\ Unread(db) # {} => db'.adm[Min(Unread(db))] # "closed"
  BY OpenRows, Typed DEF PreToolPeek
<1>2. Unread(db') = Unread(db)  BY <1>1 DEF Unread, SameMail
<1>3. /\ pre = "captured" /\ pre' = "peeked"
      /\ scratch' = scratch \cup (IF Unread(db) = {} THEN {} ELSE {Min(Unread(db))})
      /\ UNCHANGED <<holder, host, told, woke, suppressed, prompts, faults>>
  BY DEF PreToolPeek, counts
<1>4. scratch' \subseteq Message  BY <1>3, OldestUnread, Typed
<1>5. RingInv'
  BY <1>1, <1>2, <1>3 DEF IInv, RingInv, Shown, SameBell
<1>6. Turns  BY <1>1, <1>2, <1>3 DEF Turns, SameEp
<1> QED  BY <1>1, <1>3, <1>4, <1>5, <1>6, TurnInv, Typed DEF Shown, SameMail

LEMMA PostToolInv ==
  ASSUME IInv, PostTool  PROVE IInv'
<1>1. Turns /\ Unread(db') = Unread(db) /\ db'.bell = db.bell  BY OwnTurn DEF PostTool
<1>2. \A m \in Unread(db) : Shown(m) => Shown(m)'  BY DEF PostTool, Shown
<1>3. RingInv'  BY <1>1, <1>2, RingSame DEF PostTool
<1>4. told' \subseteq Message  BY Typed DEF PostTool
<1> QED  BY <1>1, <1>2, <1>3, <1>4, TurnInv, Typed DEF PostTool, counts

(* A receipt closes the message; the next one is opened and rings, or the bell *)
(* still stands for the same oldest message.                                 *)
LEMMA ReceiveInv ==
  ASSUME IInv, NEW m \in Message, Receive(m)  PROVE IInv'
<1> DEFINE d == [db EXCEPT !.del[m] = "read", !.adm[m] = "closed", !.blocks[m] = 0]
<1>1. /\ d \in Rows /\ SameEp(db, d) /\ SameWake(db, d) /\ SameBell(db, d)
      /\ d.del = [db.del EXCEPT ![m] = "read"] /\ d.adm = [db.adm EXCEPT ![m] = "closed"]
  <2>1. db \in Rows /\ 0 \in 0..StopBlockCap  BY Typed, WakeAssumption
  <2> QED  BY <2>1 DEF Rows, SameEp, SameWake, SameBell
<1>2. /\ \A n \in Message : d.del[n] = IF n = m THEN "read" ELSE db.del[n]
      /\ \A n \in Message : d.adm[n] = IF n = m THEN "closed" ELSE db.adm[n]
  BY <1>1, Typed, Fields
<1>3. Unread(d) = Unread(db) \ {m}  BY <1>2 DEF Unread
<1>4. /\ m \in Unread(db) /\ Unread(db) # {}
      /\ UNCHANGED <<holder, host, pre, scratch, woke, suppressed, prompts, faults>>
  BY DEF Receive, counts
<1>5. db'.del = d.del /\ told' = told \ {m} /\ RingInv' /\ Turns => IInv'
  <2> SUFFICES ASSUME db'.del = d.del, told' = told \ {m}, RingInv', Turns  PROVE IInv'
    OBVIOUS
  <2>1. Unread(db') = Unread(db) \ {m}  BY <1>3 DEF Unread
  <2>2. \A n \in Unread(db') : Shown(n) => Shown(n)'  BY <1>4, <2>1 DEF Shown
  <2>3. \A n \in Message : db'.del[n] = "none" => db.del[n] = "none"  BY <1>2
  <2>4. told' \subseteq Message  BY Typed
  <2> QED  BY <1>4, <2>2, <2>3, <2>4, TurnInv, Typed
<1> HIDE DEF d
<1>6. CASE /\ CurrentOwner(db, m) /\ told' = told \ {m}
           /\ db' = IF Unread(d) = {} THEN d ELSE RefreshWatermark(OpenOldestUnread(d))
  <2>1. CASE Unread(d) = {}
    <3>1. Turns  BY <1>1, <1>3, <1>4, <1>6, <2>1 DEF Turns, SameEp
    <3>2. RingInv'  BY <1>1, <1>4, <1>6, <2>1 DEF IInv, RingInv, SameBell
    <3> QED  BY <1>5, <1>6, <2>1, <3>1, <3>2
  <2>2. CASE Unread(d) # {}
    <3> DEFINE e == OpenOldestUnread(d)
    <3>1. e \in Rows /\ SameMail(d, e) /\ SameEp(d, e) /\ SameWake(d, e) /\ SameBell(d, e)
      BY <1>1, OpenRows
    <3>2. db' = RefreshWatermark(e)  BY <1>6, <2>2
    <3> HIDE DEF e
    <3>3. /\ db' \in Rows /\ db'.bell \in {"new", "newer"}
          /\ db'.bell = "newer" <=> e.bell \in {"captured", "newer"}
          /\ SameMail(e, db') /\ SameEp(e, db') /\ SameWake(e, db')
      BY <3>1, <3>2, RefreshRows
    <3>4. db'.del = d.del /\ Unread(db') = Unread(db) \ {m}
      BY <1>3, <3>1, <3>3 DEF SameMail, Unread
    <3>5. Turns  BY <1>1, <1>4, <3>1, <3>3, <3>4 DEF Turns, SameEp, SameWake
    <3>6. RingInv'
      BY <1>1, <1>4, <3>1, <3>3 DEF IInv, RingInv, Rung, SameBell
    <3> QED  BY <1>5, <1>6, <3>4, <3>5, <3>6
  <2> QED  BY <2>1, <2>2
<1>7. CASE ~CurrentOwner(db, m) /\ db' = d /\ told' = told \ {m}
  <2>1. Turns  BY <1>1, <1>3, <1>4, <1>7 DEF Turns, SameEp
  <2>2. RingInv'
    <3>1. CASE Rung  BY <1>1, <1>4, <1>7, <3>1 DEF IInv, RingInv, Rung, SameBell
    <3>2. CASE ~Rung
      <4> DEFINE first == Min(Unread(db))
      <4>1. Shown(first) /\ db.adm[first] # "closed" /\ first \in Unread(db) /\ first \in Message
        BY <1>4, <3>2, OldestUnread DEF IInv, RingInv
      <4>2. first # m  BY <1>7, <4>1 DEF CurrentOwner
      <4>3. first \in Unread(d) /\ Unread(d) \in SUBSET Unread(db)  BY <1>3, <4>1, <4>2
      <4>4. Min(Unread(d)) = first  BY <1>4, <4>3, SameOldest, Typed
      <4> HIDE DEF first
      <4>5. db'.adm[first] # "closed"  BY <1>2, <1>7, <4>1, <4>2
      <4>6. first \in scratch' \cup told'  BY <1>4, <1>7, <4>1, <4>2 DEF Shown
      <4>7. Min(Unread(db')) = first  BY <1>7, <4>4
      <4>8. Min(Unread(db')) \in scratch' \cup told'  BY <4>6, <4>7
      <4>9. (pre # "none") <=> db.bell \in {"captured", "newer"}  BY DEF IInv, RingInv
      <4>10. db'.bell = db.bell /\ pre' = pre  BY <1>1, <1>4, <1>7 DEF SameBell
      <4> QED  BY <4>5, <4>7, <4>8, <4>9, <4>10 DEF RingInv, Shown
    <3> QED  BY <3>1, <3>2
  <2> QED  BY <1>5, <1>7, <2>1, <2>2
<1>8. CASE told' = told \cup {Min(Unread(db))} /\ UNCHANGED db
  <2>1. Turns /\ Unread(db') = Unread(db) /\ db'.bell = db.bell  BY <1>4, <1>8, OwnTurn
  <2>2. \A n \in Unread(db) : Shown(n) => Shown(n)'  BY <1>4, <1>8 DEF Shown
  <2>3. RingInv'  BY <1>4, <1>8, <2>1, <2>2, RingSame
  <2>4. told' \subseteq Message  BY <1>4, <1>8, OldestUnread, Typed
  <2> QED  BY <1>4, <1>8, <2>1, <2>2, <2>3, <2>4, TurnInv, Typed
<1> QED  BY <1>6, <1>7, <1>8 DEF Receive, d

LEMMA ArmRetryInv ==
  ASSUME IInv, ArmRetry  PROVE IInv'
<1> DEFINE m == Min(Unread(db))
           d == [db EXCEPT !.adm[m] = "retried"]
<1>1. m \in Message  BY OldestUnread DEF ArmRetry
<1>2. db' = RefreshWatermark(d)  BY DEF ArmRetry
<1> HIDE DEF m
<1>3. d \in Rows /\ SameMail(db, d) /\ SameEp(db, d) /\ SameWake(db, d) /\ SameBell(db, d)
  BY <1>1, Typed DEF Rows, SameMail, SameEp, SameWake, SameBell
<1> HIDE DEF d
<1>4. /\ db' \in Rows /\ db'.bell \in {"new", "newer"}
      /\ db'.bell = "newer" <=> db.bell \in {"captured", "newer"}
      /\ SameMail(db, db') /\ SameEp(db, db') /\ SameWake(db, db')
  BY <1>2, <1>3, RefreshRows DEF SameMail, SameEp, SameWake, SameBell
<1>5. Unread(db') = Unread(db)  BY <1>4 DEF Unread, SameMail
<1>6. UNCHANGED <<holder, host, pre, scratch, told, woke, suppressed, prompts, faults>>
  BY DEF ArmRetry, session, counts
<1>7. RingInv'  BY <1>4, <1>6 DEF IInv, RingInv, Rung
<1>8. Turns  BY <1>4, <1>5, <1>6 DEF Turns, SameEp
<1> QED  BY <1>4, <1>6, <1>7, <1>8, TurnInv, Typed DEF SameMail, Shown

LEMMA StopBlockedInv ==
  ASSUME IInv, StopBlocked, UNCHANGED <<pre, scratch, woke, suppressed, counts>>  PROVE IInv'
<1> DEFINE m == Min(Presentable(db))
<1>1. m \in Message  BY OldestOf DEF StopBlocked, MustBlock, Presentable, Unread
<1>2. db.blocks[m] < StopBlockCap  BY DEF StopBlocked, MustBlock
<1>3. db' = [db EXCEPT !.blocks[m] = @ + 1] /\ told' = told \cup {m} /\ UNCHANGED <<holder, host>>
  BY DEF StopBlocked
<1> HIDE DEF m
<1>4. db.blocks[m] + 1 \in 0..StopBlockCap  BY <1>1, <1>2, Typed, Fields, WakeAssumption
<1>5. /\ db' \in Rows /\ SameMail(db, db') /\ SameEp(db, db') /\ SameWake(db, db')
      /\ SameBell(db, db') /\ db'.adm = db.adm
  BY <1>1, <1>3, <1>4, Typed DEF Rows, SameMail, SameEp, SameWake, SameBell
<1>6. Unread(db') = Unread(db)  BY <1>5 DEF Unread, SameMail
<1>7. \A n : Shown(n) => Shown(n)'  BY <1>3 DEF Shown
<1>8. RingInv'  BY <1>5, <1>6, <1>7, RingSame DEF SameBell
<1>9. Turns  BY <1>3, <1>5, <1>6 DEF Turns, SameEp
<1> QED  BY <1>1, <1>3, <1>5, <1>7, <1>8, <1>9, TurnInv, Typed DEF SameMail, counts

LEMMA StopRetiringInv ==
  ASSUME IInv, db.ep = "retiring", host' = "idle", UNCHANGED <<db, holder, told>>,
         UNCHANGED <<pre, scratch, woke, suppressed, counts>>
  PROVE  IInv'
<1>1. faults # 0  BY DEF IInv, QuietInv, Quiet
<1>2. Turns /\ Unread(db') = Unread(db) /\ db'.bell = db.bell  BY OwnTurn
<1>3. RingInv'  BY <1>2, RingSame DEF Shown
<1> QED  BY <1>1, <1>2, <1>3, TurnInv, Typed DEF counts, Shown

-----------------------------------------------------------------------------
(* Messages, prompts and the end of a turn. *)

LEMMA LeftHolder ==
  ASSUME IInv, NEW l \in Listener, Left(l)
  PROVE  /\ holder' \in [Listener -> Holder]
         /\ holder'[l].pc = "none" /\ holder'[l].m = NoMessage
         /\ \A k \in Listener : k # l => holder'[k] = holder[k]
BY Typed DEF Left, NoHolder, Holder

LEMMA MovedHolder ==
  ASSUME IInv, NEW l \in Listener,
         NEW pc \in {"none", "start", "wait", "stage", "ack", "duplicate", "emit"}, Moved(l, pc)
  PROVE  /\ holder' \in [Listener -> Holder]
         /\ holder'[l].pc = pc /\ holder'[l].m = holder[l].m /\ holder'[l].up = holder[l].up
         /\ \A k \in Listener : k # l => holder'[k] = holder[k]
BY Typed DEF Moved, Holder

LEMMA HolderFields ==
  ASSUME IInv, NEW l \in Listener
  PROVE  /\ holder[l].pc \in {"none", "start", "wait", "stage", "ack", "duplicate", "emit"}
         /\ holder[l].m \in Message \cup {NoMessage} /\ holder[l].up \in BOOLEAN
BY Typed DEF Holder

LEMMA WakingFull ==
  ASSUME IInv, Wakes(db, db'), UNCHANGED <<pre, scratch, told, woke>>,
         \A l \in Listener :
            /\ AtPc(l, {"ack", "duplicate"})' => AtPc(l, {"ack", "duplicate"}) /\ holder'[l].m = holder[l].m
            /\ \A m \in Message : db.del[m] = "none" => holder'[l].m # m,
         holder' \in [Listener -> Holder], Carries', faults' = 0 => Quiet',
         prompts' \in Nat, faults' \in Nat, host' \in {"idle", "working"}, suppressed' \in BOOLEAN
  PROVE  IInv'
<1>1. Unborn' /\ ShownInv' /\ RingInv'  BY WakingInv
<1>2. TypeOK'  BY Typed, TypedNext DEF Wakes
<1> QED  BY <1>1, <1>2 DEF IInv, QuietInv

(* The same with the holders as they were.                                    *)
LEMMA WakingStill ==
  ASSUME IInv, Wakes(db, db'), UNCHANGED <<pre, scratch, told, woke, holder, suppressed>>,
         faults' = 0 => Quiet',
         prompts' \in Nat, faults' \in Nat, host' \in {"idle", "working"}
  PROVE  IInv'
<1>1. \A l \in Listener :
         /\ AtPc(l, {"ack", "duplicate"})' => AtPc(l, {"ack", "duplicate"}) /\ holder'[l].m = holder[l].m
         /\ \A m \in Message : db.del[m] = "none" => holder'[l].m # m
  BY DEF IInv, Unborn, AtPc
<1>2. Carries'  BY DEF IInv, Carries, AtPc
<1> QED  BY <1>1, <1>2, Typed, WakingFull

LEMMA CommitInv ==
  ASSUME IInv, NEW m \in Message, Commit(m)  PROVE IInv'
<1> DEFINE b  == [db EXCEPT !.del[m] = "unread"]
           d  == RefreshWatermark(b)
           ls == IF d.ep = "idle" THEN ExactListeners(d) ELSE {}
<1>1. /\ b \in Rows /\ SameEp(db, b) /\ SameWake(db, b) /\ SameBell(db, b) /\ SameAdm(db, b)
      /\ b.del = [db.del EXCEPT ![m] = "unread"]
  BY Typed DEF Rows, SameEp, SameWake, SameBell, SameAdm
<1>2. /\ d \in Rows /\ d.bell \in {"new", "newer"}
      /\ d.bell = "newer" <=> b.bell \in {"captured", "newer"}
      /\ SameMail(b, d) /\ SameEp(b, d) /\ SameWake(b, d) /\ SameAdm(b, d)
  BY <1>1, RefreshRows
<1> DEFINE presents(l) ==
             /\ db' = Present(d, l, m)
             /\ IF Connected(l) /\ AtPc(l, {"wait"})
                THEN holder' = [holder EXCEPT ![l].pc = "stage", ![l].m = m]
                ELSE UNCHANGED holder
<1>3. /\ db.del[m] = "none" /\ UNCHANGED <<session, suppressed, counts>>
      /\ (ls = {} /\ db' = d /\ UNCHANGED holder) \/ \E l \in ls : presents(l)
  BY DEF Commit
<1> HIDE DEF b, d
<1>4. /\ \A n \in Message : d.del[n] = IF n = m THEN "unread" ELSE db.del[n]
      /\ Unread(d) = Unread(db) \cup {m}
  <2>1. d.del = [db.del EXCEPT ![m] = "unread"]  BY <1>1, <1>2 DEF SameMail
  <2>2. \A n \in Message : d.del[n] = IF n = m THEN "unread" ELSE db.del[n]
    BY <2>1, Typed, Fields
  <2> QED  BY <2>2 DEF Unread
<1>5. /\ SameEp(db, d) /\ SameWake(db, d)
      /\ d.bell \in {"new", "newer"} /\ (d.bell = "newer" <=> db.bell \in {"captured", "newer"})
  BY <1>1, <1>2 DEF SameEp, SameWake, SameBell
<1>6. /\ db.pres[m] = "none" /\ m \notin woke /\ \A l \in Listener : holder[l].m # m
  BY <1>3 DEF IInv, Unborn
(* What holds whether or not it is presented.                                *)
<1>7. ASSUME db' \in Rows, db'.del = d.del, db'.bell = d.bell, holder' \in [Listener -> Holder],
             \A n \in Message : db'.pres[n] = db.pres[n] \/ (n = m /\ db'.pres[n] = "pending"),
             \A l \in Listener : AtPc(l, {"ack", "duplicate"})' =>
                AtPc(l, {"ack", "duplicate"}) /\ holder'[l].m = holder[l].m,
             \A l \in Listener : holder'[l].m \in {holder[l].m, m},
             Carries', faults' = 0 => Quiet'
      PROVE  IInv'
  <2>1. Unread(db') = Unread(db) \cup {m}  BY <1>4, <1>7 DEF Unread
  <2>2. TypeOK'  BY <1>3, <1>7, Typed, TypedNext DEF session, counts
  <2>3. Unborn'
    <3> SUFFICES ASSUME NEW n \in Message, db'.del[n] = "none"
                 PROVE  /\ db'.pres[n] = "none" /\ n \notin woke'
                        /\ \A l \in Listener : holder'[l].m # n
      BY DEF Unborn
    <3>1. n # m /\ db.del[n] = "none"  BY <1>4, <1>7
    <3> QED  BY <1>3, <1>7, <3>1 DEF IInv, Unborn, session
  <2>4. ShownInv'
    <3> SUFFICES ASSUME NEW n \in Unread(db) \cup {m}, Vouched(n)'  PROVE Shown(n)'
      BY <2>1 DEF ShownInv
    <3>1. n \in Message  BY DEF Unread
    <3>2. Vouched(n)  BY <1>3, <1>7, <3>1 DEF Vouched, session
    <3>3. n # m  BY <1>6, <3>2 DEF Vouched
    <3> QED  BY <1>3, <3>2, <3>3 DEF IInv, ShownInv, Shown, session
  <2>5. RingInv'  BY <1>3, <1>5, <1>7 DEF IInv, RingInv, Rung, session
  <2> QED  BY <1>7, <2>2, <2>3, <2>4, <2>5 DEF IInv, QuietInv
<1>8. CASE ls = {} /\ db' = d /\ UNCHANGED holder
  <2>1. faults' = 0 => Quiet'
    <3> SUFFICES ASSUME faults' = 0  PROVE Quiet'
      OBVIOUS
    <3>1. Quiet  BY <1>3 DEF IInv, QuietInv, counts
    <3>2. Active(db') = Active(db) /\ \A l : PendingOn(db', l) = PendingOn(db, l)
      BY <1>5, <1>8 DEF Active, PendingOn, SameWake
    <3>3. ASSUME NEW l \in Active(db)  PROVE Parked(l)'
      <4>1. Parked(l) /\ l \in Listener /\ db.expired = {}  BY <3>1 DEF Quiet, Active
      <4>2. db.lst[l] = "waking"
        BY <1>5, <1>8, <4>1 DEF Parked, ExactListeners, Active, SameEp, SameWake
      <4> QED  BY <1>5, <1>8, <3>2, <4>1, <4>2 DEF Parked, AtPc, SameEp, SameWake
    <3> QED
      BY <1>3, <1>5, <1>8, <3>1, <3>2, <3>3
         DEF Quiet, SameEp, SameWake, AtPc, Connected, Running, session
  <2>2. Carries'  BY <1>8 DEF IInv, Carries, AtPc
  <2> QED  BY <1>2, <1>5, <1>7, <1>8, <2>1, <2>2, Typed DEF SameWake, AtPc
<1>9. ASSUME NEW l \in ls, presents(l)  PROVE IInv'
  <2>1. l \in Listener /\ d.ep = "idle" /\ d.lst[l] \in {"parked", "attached"}
    BY DEF ExactListeners
  <2>2. /\ db' \in Rows /\ SameMail(d, db') /\ SameEp(d, db') /\ SameBell(d, db')
        /\ db'.missed = d.missed /\ db'.expired = d.expired /\ db'.dropped = d.dropped
        /\ db'.pres = [d.pres EXCEPT ![m] = "pending"] /\ db'.on = [d.on EXCEPT ![m] = l]
        /\ db'.lst = [d.lst EXCEPT ![l] = "waking"]
    <3>1. db' = Present(d, l, m)  BY <1>9
    <3>2. d \in Rows /\ l \in Listener  BY <1>2, <2>1
    <3> QED  BY <3>1, <3>2, PresentRows
  <2>3. /\ holder' \in [Listener -> Holder]
        /\ \A k \in Listener : k # l => holder'[k] = holder[k]
        /\ \/ holder'[l] = holder[l]
           \/ /\ AtPc(l, {"wait"}) /\ holder'[l].pc = "stage" /\ holder'[l].m = m
              /\ holder'[l].up = holder[l].up
    BY <1>9, <2>1, Typed DEF Holder
  <2>4. /\ \A n \in Message : db'.pres[n] = IF n = m THEN "pending" ELSE db.pres[n]
        /\ \A n \in Message : db'.on[n] = IF n = m THEN l ELSE db.on[n]
        /\ \A k \in Listener : db'.lst[k] = IF k = l THEN "waking" ELSE db.lst[k]
    BY <1>2, <1>5, <2>1, <2>2, Fields DEF SameWake
  <2>5. Carries'  BY <2>3 DEF IInv, Carries, AtPc
  <2>6. faults' = 0 => Quiet'
    <3> SUFFICES ASSUME faults' = 0  PROVE Quiet'
      OBVIOUS
    <3>1. Quiet  BY <1>3 DEF IInv, QuietInv, counts
    <3>2. l \in Active(db) /\ Parked(l) /\ Active(db) = {l} /\ PendingOn(db, l) = {}
      BY <1>5, <2>1, <3>1 DEF Quiet, Active, Parked, SameWake
    <3>3. Active(db') = {l}  BY <2>1, <2>4, <3>2 DEF Active
    <3>4. \A n \in Message : db.pres[n] # "pending"
      BY <3>1, <3>2 DEF Quiet, PendingOn
    <3>5. m \in PendingOn(db', l)  BY <2>4 DEF PendingOn
    <3>6. Parked(l)'
      BY <1>5, <2>1, <2>2, <2>3, <2>4, <3>2, <3>3, <3>5 DEF Parked, AtPc, SameEp
    <3>7. \A k \in Listener : holder'[k].up = holder[k].up /\ (Running(k)' <=> Running(k))
      BY <2>1, <2>3 DEF Running, AtPc
    <3>8. \A k \in Listener : AtPc(k, {"wait", "stage", "ack", "duplicate"})' =>
             AtPc(k, {"wait", "stage", "ack", "duplicate"})
      BY <2>1, <2>3 DEF AtPc
    <3>9. db'.mode = "non_interactive" => host # "working"
      BY <1>5, <2>2, <3>1, <3>2 DEF Quiet, SameEp
    <3> QED
      BY <1>3, <1>5, <2>1, <2>2, <2>4, <3>1, <3>3, <3>4, <3>6, <3>7, <3>8, <3>9
         DEF Quiet, SameEp, SameWake, Connected, session
  <2> QED
    BY <1>7, <2>2, <2>3, <2>4, <2>5, <2>6 DEF SameMail, SameBell, AtPc
<1> QED  BY <1>3, <1>8, <1>9

LEMMA StartHolder ==
  LET h == [NoHolder EXCEPT !.pc = "start"]
  IN  h \in Holder /\ h.pc = "start" /\ h.m = NoMessage
BY DEF NoHolder, Holder

(* Once everything parked has ended, nothing is pending.                      *)
LEMMA AllEnded ==
  ASSUME IInv, Quiet, db' \in Rows, db'.ep # "retiring",
         db'.expired = db.expired \ Active(db), db'.dropped = db.dropped \ Active(db),
         \A l \in Listener : db'.lst[l] = IF l \in Active(db) THEN "ended" ELSE db.lst[l],
         \A m \in Message :
            IF db.pres[m] \in {"pending", "late"} /\ db.on[m] \in Active(db)
            THEN db'.pres[m] = "missed" /\ db'.on[m] = NoListener
            ELSE db'.pres[m] = db.pres[m] /\ db'.on[m] = db.on[m],
         \A l \in Listener : AtPc(l, {"wait", "stage", "ack", "duplicate"})' => Connected(l)',
         db'.mode = "non_interactive" =>
            /\ \A l, k \in Listener : Running(l)' /\ Running(k)' => l = k
            /\ host' = "working" => \A l \in Listener : ~Running(l)'
  PROVE  Quiet'
<1>1. Active(db') = {}  BY DEF Active
<1>2. db'.expired = {} /\ db'.dropped = {}  BY DEF Quiet
<1>3. \A m \in Message : db'.pres[m] \notin {"pending", "late"}  BY DEF Quiet
<1> QED  BY <1>1, <1>2, <1>3 DEF Quiet

LEMMA PromptInv ==
  ASSUME IInv, Prompt  PROVE IInv'
<1>1. /\ db.mode = "interactive" /\ host' = "working"
      /\ UNCHANGED <<holder, pre, scratch, told, woke, suppressed>>
      /\ \/ db' = SetBusy(db) /\ prompts' = prompts + 1 /\ UNCHANGED faults
         \/ UNCHANGED db /\ faults' = faults + 1 /\ UNCHANGED prompts
  BY DEF Prompt
<1>2. CASE db' = SetBusy(db) /\ prompts' = prompts + 1 /\ UNCHANGED faults
  <2>1. /\ Wakes(db, db')
        /\ db.ep # "retiring" =>
             /\ db'.ep = "busy"
             /\ db'.expired = db.expired \ Active(db) /\ db'.dropped = db.dropped \ Active(db)
             /\ \A l \in Listener : db'.lst[l] = IF l \in Active(db) THEN "ended" ELSE db.lst[l]
             /\ \A m \in Message :
                   IF db.pres[m] \in {"pending", "late"} /\ db.on[m] \in Active(db)
                   THEN db'.pres[m] = "missed" /\ db'.on[m] = NoListener
                   ELSE db'.pres[m] = db.pres[m] /\ db'.on[m] = db.on[m]
    BY <1>2, BusyRows, Typed
  <2>2. faults' = 0 => Quiet'
    <3> SUFFICES ASSUME faults' = 0  PROVE Quiet'
      OBVIOUS
    <3>1. Quiet /\ db.ep # "retiring"  BY <1>2 DEF IInv, QuietInv, Quiet
    <3>2. \A l \in Listener : AtPc(l, {"wait", "stage", "ack", "duplicate"})' => Connected(l)'
      BY <1>1, <3>1 DEF Quiet, AtPc, Connected
    <3>3. db'.mode = "interactive" /\ db'.ep = "busy" /\ db' \in Rows  BY <1>1, <2>1, <3>1 DEF Wakes
    <3> QED  BY <2>1, <3>1, <3>2, <3>3, AllEnded
  <2> QED  BY <1>1, <1>2, <2>1, <2>2, Typed, WakingStill
<1>3. CASE UNCHANGED db /\ faults' = faults + 1 /\ UNCHANGED prompts
  <2>1. Wakes(db, db')  BY <1>3, Typed DEF Wakes, SameMail, SameAdm, Heard, NoneAcked
  <2>2. faults' # 0 /\ faults' \in Nat  BY <1>3, Typed
  <2> QED  BY <1>1, <1>3, <2>1, <2>2, Typed, WakingStill
<1> QED  BY <1>1, <1>2, <1>3

LEMMA StopAllowedInv ==
  ASSUME IInv, StopAllowed, db.ep # "retiring", UNCHANGED <<pre, scratch, woke, suppressed, counts>>
  PROVE  IInv'
<1> DEFINE d == Release(db, Active(db))
<1>1. db' = MarkIdle(d) /\ host' = "idle" /\ UNCHANGED <<holder, told>>  BY DEF StopAllowed
<1>2. Active(db) \in SUBSET Listener  BY DEF Active
<1>3. /\ d \in Rows /\ SameEp(db, d) /\ Wakes(db, d)
      /\ d.expired = db.expired \ Active(db) /\ d.dropped = db.dropped \ Active(db)
      /\ \A l \in Listener : d.lst[l] = IF l \in Active(db) THEN "ended" ELSE db.lst[l]
      /\ \A m \in Message :
            IF db.pres[m] \in {"pending", "late"} /\ db.on[m] \in Active(db)
            THEN d.pres[m] = "missed" /\ d.on[m] = NoListener
            ELSE d.pres[m] = db.pres[m] /\ d.on[m] = db.on[m]
  BY <1>2, ReleaseRows, ReleaseWakes, Typed
<1> HIDE DEF d
<1>4. /\ db' \in Rows
      /\ SameMail(d, db') /\ SameBell(d, db') /\ SameAdm(d, db') /\ SameWake(d, db')
      /\ db'.mode = d.mode /\ db'.armed = d.armed
      /\ db'.ep = IF d.ep = "retiring" THEN d.ep ELSE "idle"
  BY <1>1, <1>3, IdleRows
<1>5. Wakes(db, db')
  BY <1>3, <1>4 DEF Wakes, SameMail, SameBell, SameAdm, SameWake, Heard, NoneAcked
<1>6. faults' = 0 => Quiet'
  <2> SUFFICES ASSUME faults' = 0  PROVE Quiet'
    OBVIOUS
  <2>1. Quiet  BY DEF IInv, QuietInv, counts
  <2>2. /\ \A l \in Listener : AtPc(l, {"wait", "stage", "ack", "duplicate"})' => Connected(l)'
        /\ \A l \in Listener : Running(l)' <=> Running(l)
    BY <1>1, <2>1 DEF Quiet, AtPc, Connected, Running
  <2>3. db'.mode = db.mode /\ db'.ep # "retiring"  BY <1>3, <1>4 DEF SameEp
  <2>4. db'.mode = "non_interactive" => \A l, k \in Listener : Running(l)' /\ Running(k)' => l = k
    BY <2>1, <2>2, <2>3 DEF Quiet
  <2> QED
    BY <1>1, <1>3, <1>4, <2>1, <2>2, <2>3, <2>4, AllEnded DEF SameWake
<1> QED  BY <1>1, <1>5, <1>6, Typed, WakingStill DEF counts

LEMMA StopReusesInv ==
  ASSUME IInv, StopReuses, db.ep # "retiring", UNCHANGED <<pre, scratch, woke, suppressed, counts>>
  PROVE  IInv'
<1>1. PICK l \in Active(db) :
        holder' = IF Connected(l) \/ AtPc(l, {"stage", "ack", "duplicate", "emit"})
                  THEN holder
                  ELSE [holder EXCEPT ![l] = [NoHolder EXCEPT !.pc = "start"]]
  BY DEF StopReuses
<1>2. db' = MarkIdle(db) /\ host' = "idle" /\ UNCHANGED told  BY DEF StopReuses
<1>3. l \in Listener  BY DEF Active
<1>4. /\ db' \in Rows
      /\ SameMail(db, db') /\ SameBell(db, db') /\ SameAdm(db, db') /\ SameWake(db, db')
      /\ db'.mode = db.mode /\ db'.armed = db.armed
      /\ db'.ep = IF db.ep = "retiring" THEN db.ep ELSE "idle"
  BY <1>2, Typed, IdleRows
<1>5. Wakes(db, db')
  BY <1>4 DEF Wakes, SameMail, SameBell, SameAdm, SameWake, Heard, NoneAcked
<1>6. LET h == [NoHolder EXCEPT !.pc = "start"]
      IN  h \in Holder /\ h.pc = "start" /\ h.m = NoMessage
  BY StartHolder
<1>7. /\ holder' \in [Listener -> Holder]
      /\ \A k \in Listener : k # l => holder'[k] = holder[k]
      /\ holder'[l] = holder[l] \/ (holder'[l].pc = "start" /\ holder'[l].m = NoMessage)
  BY <1>1, <1>3, <1>6, Typed
<1>8. \A k \in Listener :
        /\ AtPc(k, {"ack", "duplicate"})' => AtPc(k, {"ack", "duplicate"}) /\ holder'[k].m = holder[k].m
        /\ \A m \in Message : db.del[m] = "none" => holder'[k].m # m
  BY <1>3, <1>7, Ids DEF IInv, Unborn, AtPc, NoMessage
<1>9. Carries'  BY <1>3, <1>7 DEF IInv, Carries, AtPc
<1>10. faults' = 0 => Quiet'
  <2> SUFFICES ASSUME faults' = 0  PROVE Quiet'
    OBVIOUS
  <2>1. Quiet  BY DEF IInv, QuietInv, counts
  <2>2. Active(db') = Active(db) /\ \A k : PendingOn(db', k) = PendingOn(db, k)
        /\ Unread(db') = Unread(db)
    BY <1>4 DEF Active, PendingOn, SameWake, SameMail, Unread
  <2>3. Parked(l) /\ \A k \in Active(db) : k = l  BY <2>1 DEF Quiet, Parked
  <2>4. Parked(l)'
    BY <1>3, <1>4, <1>7, <2>2, <2>3 DEF Parked, AtPc, SameWake
  <2>5. \A k \in Listener : AtPc(k, {"wait", "stage", "ack", "duplicate"})' => Connected(k)'
    BY <1>3, <1>7, <2>1 DEF Quiet, AtPc, Connected
  <2>6. \A k \in Listener : Running(k)' => Running(k)
    BY <1>3, <1>7, <2>3 DEF Parked, Running, AtPc
  <2> QED
    BY <1>2, <1>4, <2>1, <2>2, <2>3, <2>4, <2>5, <2>6 DEF Quiet, SameWake
<1> QED  BY <1>2, <1>5, <1>7, <1>8, <1>9, <1>10, Typed, WakingFull DEF counts

LEMMA StopParksInv ==
  ASSUME IInv, StopParks, db.ep # "retiring", host = "working",
         NEW background \in BOOLEAN, Parks(db, background),
         UNCHANGED <<pre, scratch, woke, suppressed, counts>>
  PROVE  IInv'
<1>1. PICK l \in Listener : l = Min(Free(db)) /\ l \in Free(db)
  <2>1. Free(db) \in SUBSET Nat /\ Free(db) # {} /\ Free(db) \in SUBSET Listener
    BY Ids DEF StopParks, Free
  <2> QED  BY <2>1, Oldest
<1> DEFINE b == [db EXCEPT !.lst[l] = "parked"]
           d == MarkIdle(b)
<1>2. /\ db' = IF Presentable(d) = {} THEN d ELSE Present(d, l, Min(Presentable(d)))
      /\ holder' = [holder EXCEPT ![l] = [NoHolder EXCEPT !.pc = "start"]]
      /\ host' = "idle" /\ UNCHANGED told /\ Active(db) = {}
  BY <1>1 DEF StopParks
<1>3. /\ b \in Rows /\ SameMail(db, b) /\ SameEp(db, b) /\ SameBell(db, b) /\ SameAdm(db, b)
      /\ b.pres = db.pres /\ b.on = db.on /\ b.expired = db.expired /\ b.dropped = db.dropped
      /\ b.lst = [db.lst EXCEPT ![l] = "parked"]
  BY <1>1, Typed DEF Rows, SameMail, SameEp, SameBell, SameAdm
<1> HIDE DEF b
<1>4. /\ d \in Rows
      /\ SameMail(b, d) /\ SameBell(b, d) /\ SameAdm(b, d) /\ SameWake(b, d)
      /\ d.mode = b.mode /\ d.armed = b.armed
      /\ d.ep = IF b.ep = "retiring" THEN b.ep ELSE "idle"
  BY <1>3, IdleRows
<1> HIDE DEF d
<1>5. /\ d.del = db.del /\ d.adm = db.adm /\ d.blocks = db.blocks /\ d.bell = db.bell
      /\ d.pres = db.pres /\ d.on = db.on /\ d.expired = db.expired /\ d.dropped = db.dropped
      /\ d.mode = db.mode /\ d.armed = db.armed /\ d.ep = "idle"
      /\ d.lst = [db.lst EXCEPT ![l] = "parked"]
  BY <1>3, <1>4 DEF SameMail, SameEp, SameBell, SameAdm, SameWake
<1>6. LET h == [NoHolder EXCEPT !.pc = "start"]
      IN  h \in Holder /\ h.pc = "start" /\ h.m = NoMessage
  BY StartHolder
<1>7. /\ holder' \in [Listener -> Holder]
      /\ \A k \in Listener : k # l => holder'[k] = holder[k]
      /\ holder'[l].pc = "start" /\ holder'[l].m = NoMessage
  BY <1>1, <1>2, <1>6, Typed
<1>8. \A k \in Listener :
        /\ AtPc(k, {"ack", "duplicate"})' => AtPc(k, {"ack", "duplicate"}) /\ holder'[k].m = holder[k].m
        /\ \A m \in Message : db.del[m] = "none" => holder'[k].m # m
  BY <1>1, <1>7, Ids DEF IInv, Unborn, AtPc, NoMessage
<1>9. Carries'  BY <1>1, <1>7 DEF IInv, Carries, AtPc
<1>10. \A k \in Listener : d.lst[k] = IF k = l THEN "parked" ELSE db.lst[k]
  BY <1>1, <1>5, Typed, Fields
<1>11. \A k \in Listener : d.lst[k] \in {"parked", "attached", "waking"} <=> k = l
  BY <1>2, <1>10 DEF Active
<1>12. db.mode = "interactive" => db.armed  BY DEF Parks
(* What holds of the quiet system whatever is presented.                      *)
<1>13. ASSUME faults' = 0, db' \in Rows, SameEp(d, db'),
              db'.expired = d.expired, db'.dropped = d.dropped,
              \A k \in Listener : db'.lst[k] \in {"parked", "attached", "waking"} <=> k = l,
              \A m \in Message : db'.pres[m] # "late",
              \A m \in Message : db'.pres[m] = "pending" => db'.on[m] = l,
              \A m, n \in Message : db'.pres[m] = "pending" /\ db'.pres[n] = "pending" => m = n,
              PendingOn(db', l) # {} \/ \A m \in Unread(db') : db'.pres[m] = "acked",
              db'.lst[l] = "waking" <=> PendingOn(db', l) # {}
       PROVE  Quiet'
  <2>1. Quiet  BY <1>13 DEF IInv, QuietInv, counts
  <2>2. Active(db') = {l}  BY <1>1, <1>13 DEF Active
  <2>3. /\ db'.ep = "idle" /\ db'.mode = db.mode /\ db'.armed = db.armed
        /\ db'.expired = {} /\ db'.dropped = {}
    BY <1>5, <1>13, <2>1 DEF SameEp, Quiet
  <2>4. AtPc(l, {"start", "wait", "stage", "ack", "duplicate"})'  BY <1>7 DEF AtPc
  <2>5. Parked(l)'  BY <1>12, <1>13, <2>2, <2>3, <2>4 DEF Parked
  <2>6. \A k \in Listener : AtPc(k, {"wait", "stage", "ack", "duplicate"})' => Connected(k)'
    BY <1>7, <2>1 DEF Quiet, AtPc, Connected
  <2>7. db.mode = "non_interactive" => \A k \in Listener : Running(k)' => k = l
    BY <1>7, <2>1 DEF Quiet, Running, AtPc
  <2> QED  BY <1>2, <1>13, <2>2, <2>3, <2>5, <2>6, <2>7 DEF Quiet
<1>14. CASE Presentable(d) = {} /\ db' = d
  <2>1. Wakes(db, db')
    BY <1>4, <1>5, <1>14 DEF Wakes, SameMail, SameAdm, Heard, NoneAcked
  <2>2. faults' = 0 => Quiet'
    <3> SUFFICES ASSUME faults' = 0  PROVE Quiet'
      OBVIOUS
    <3>1. Quiet  BY DEF IInv, QuietInv, counts
    <3>2. \A m \in Message : db'.pres[m] \notin {"late", "pending"}
      BY <1>2, <1>5, <1>14, <3>1 DEF Quiet
    <3>3. PendingOn(db', l) = {}  BY <3>2 DEF PendingOn
    <3>4. \A m \in Unread(db') : db'.pres[m] = "acked"
      BY <1>14, <3>2 DEF Presentable, Unread
    <3>5. db'.lst[l] = "parked"  BY <1>1, <1>10, <1>14
    <3> QED  BY <1>4, <1>11, <1>13, <1>14, <3>2, <3>3, <3>4, <3>5 DEF SameEp
  <2> QED  BY <1>2, <1>7, <1>8, <1>9, <2>1, <2>2, Typed, WakingFull DEF counts
<1>15. CASE Presentable(d) # {} /\ db' = Present(d, l, Min(Presentable(d)))
  <2> DEFINE m == Min(Presentable(d))
  <2>1. m \in Message /\ m \in Presentable(d)
    BY <1>15, OldestOf DEF Presentable, Unread
  <2> HIDE DEF m
  <2>2. LET e == db'
        IN  /\ e \in Rows
            /\ SameMail(d, e) /\ SameEp(d, e) /\ SameBell(d, e) /\ SameAdm(d, e)
            /\ e.missed = d.missed /\ e.expired = d.expired /\ e.dropped = d.dropped
            /\ e.pres = [d.pres EXCEPT ![m] = "pending"] /\ e.on = [d.on EXCEPT ![m] = l]
            /\ e.lst = [d.lst EXCEPT ![l] = "waking"]
    BY <1>1, <1>4, <1>15, <2>1, PresentRows DEF m
  <2>3. /\ \A n \in Message : db'.pres[n] = IF n = m THEN "pending" ELSE db.pres[n]
        /\ \A n \in Message : db'.on[n] = IF n = m THEN l ELSE db.on[n]
        /\ \A k \in Listener : db'.lst[k] = IF k = l THEN "waking" ELSE d.lst[k]
    BY <1>1, <1>4, <1>5, <2>1, <2>2, Fields
  <2>4. db.del[m] = "unread"  BY <1>5, <2>1 DEF Presentable, Unread
  <2>5. NoneAcked(db, db')  BY <2>3, <2>4 DEF NoneAcked
  <2>6. Wakes(db, db')
    BY <1>5, <2>2, <2>5 DEF Wakes, SameMail, SameAdm, SameBell, SameEp, Heard
  <2>7. faults' = 0 => Quiet'
    <3> SUFFICES ASSUME faults' = 0  PROVE Quiet'
      OBVIOUS
    <3>1. Quiet  BY DEF IInv, QuietInv, counts
    <3>2. \A n \in Message : db.pres[n] \notin {"late", "pending"}
      BY <1>2, <3>1 DEF Quiet
    <3>3. m \in PendingOn(db', l)  BY <2>1, <2>3 DEF PendingOn
    <3>4. db'.lst[l] = "waking"  BY <1>1, <2>3
    <3>5. \A k \in Listener : db'.lst[k] \in {"parked", "attached", "waking"} <=> k = l
      BY <1>11, <2>3
    <3> QED  BY <1>13, <2>2, <2>3, <3>2, <3>3, <3>4, <3>5
  <2> QED  BY <1>2, <1>7, <1>8, <1>9, <2>6, <2>7, Typed, WakingFull DEF counts
<1> QED  BY <1>2, <1>14, <1>15

LEMMA StopInv ==
  ASSUME IInv, Stop  PROVE IInv'
<1>1. UNCHANGED <<pre, scratch, woke, suppressed, counts>> /\ host = "working"
  BY DEF Stop
<1>2. CASE db.ep = "retiring" /\ host' = "idle" /\ UNCHANGED <<db, holder, told>>
  BY <1>1, <1>2, StopRetiringInv
<1>3. ASSUME db.ep # "retiring", NEW background \in BOOLEAN,
             IF Parks(db, background) THEN StopReuses \/ StopParks ELSE StopBlocked \/ StopAllowed
      PROVE  IInv'
  BY <1>1, <1>3, StopReusesInv, StopParksInv, StopBlockedInv, StopAllowedInv
<1> QED  BY <1>1, <1>2, <1>3 DEF Stop

-----------------------------------------------------------------------------
(* The holders. *)

LEMMA LstRows ==
  ASSUME NEW d \in Rows, NEW l \in Listener, NEW s \in {"none", "parked", "attached", "waking", "ended"},
         NEW e, e = [d EXCEPT !.lst[l] = s]
  PROVE  /\ Wakes(d, e) /\ e.ep = d.ep /\ e.pres = d.pres /\ e.on = d.on
         /\ e.expired = d.expired /\ e.dropped = d.dropped
         /\ \A k \in Listener : e.lst[k] = IF k = l THEN s ELSE d.lst[k]
<1>1. /\ e \in Rows /\ SameMail(d, e) /\ SameEp(d, e) /\ SameBell(d, e) /\ SameAdm(d, e)
      /\ e.pres = d.pres /\ e.on = d.on /\ e.expired = d.expired /\ e.dropped = d.dropped
      /\ e.lst = [d.lst EXCEPT ![l] = s]
  BY DEF Rows, SameMail, SameEp, SameBell, SameAdm
<1>2. \A k \in Listener : e.lst[k] = IF k = l THEN s ELSE d.lst[k]  BY <1>1, Fields
<1> QED  BY <1>1, <1>2 DEF Wakes, SameEp, SameBell, Heard, NoneAcked

(* A holder that attaches: the listener goes from parked to attached or, with *)
(* something pending, waking.                                                *)
LEMMA AttachedInv ==
  ASSUME IInv, NEW l \in Active(db), NEW s \in {"parked", "attached", "waking"},
         AtPc(l, {"start"}), db' = [db EXCEPT !.lst[l] = s],
         s = "waking" <=> (PendingOn(db, l) # {} \/ db.lst[l] = "waking"),
         NEW h \in Holder, holder' = [holder EXCEPT ![l] = h], h.up, h.pc \in {"wait", "stage"},
         h.m \in PendingOn(db, l) \cup {NoMessage}, h.pc = "stage" => h.m # NoMessage,
         UNCHANGED <<session, suppressed, counts>>
  PROVE  IInv'
<1>1. l \in Listener  BY DEF Active
<1>2. /\ Wakes(db, db') /\ db'.ep = db.ep /\ db'.pres = db.pres /\ db'.on = db.on
      /\ db'.expired = db.expired /\ db'.dropped = db.dropped
      /\ \A k \in Listener : db'.lst[k] = IF k = l THEN s ELSE db.lst[k]
  <2>1. db \in Rows /\ s \in {"none", "parked", "attached", "waking", "ended"}  BY Typed
  <2> QED  BY <1>1, <2>1, LstRows
<1>3. /\ holder' \in [Listener -> Holder] /\ holder'[l] = h
      /\ \A k \in Listener : k # l => holder'[k] = holder[k]
  BY <1>1, Typed
<1>4. \A k \in Listener :
        /\ AtPc(k, {"ack", "duplicate"})' => AtPc(k, {"ack", "duplicate"}) /\ holder'[k].m = holder[k].m
        /\ \A m \in Message : db.del[m] = "none" => holder'[k].m # m
  <2>1. \A m \in Message : db.del[m] = "none" => h.m # m
    BY Ids DEF IInv, Unborn, PendingOn, NoMessage
  <2> QED  BY <1>1, <1>3, <2>1 DEF IInv, Unborn, AtPc
<1>5. Carries'
  <2>1. h.pc = "stage" => h.m \in Message  BY DEF PendingOn
  <2> QED  BY <1>1, <1>3, <2>1 DEF IInv, Carries, AtPc
<1>6. faults' = 0 => Quiet'
  <2> SUFFICES ASSUME faults' = 0  PROVE Quiet'
    OBVIOUS
  <2>1. Quiet  BY DEF IInv, QuietInv, counts
  <2>2. Active(db') = Active(db) /\ \A k : PendingOn(db', k) = PendingOn(db, k)
        /\ Unread(db') = Unread(db)
    BY <1>1, <1>2 DEF Active, PendingOn, Wakes, SameMail, Unread
  <2>3. Parked(l) /\ \A k \in Active(db) : k = l  BY <2>1 DEF Quiet, Parked
  <2>4. Parked(l)'
    BY <1>1, <1>2, <1>3, <2>2, <2>3 DEF Parked, AtPc, Wakes
  <2>5. \A k \in Listener : AtPc(k, {"wait", "stage", "ack", "duplicate"})' => Connected(k)'
    BY <1>1, <1>3, <2>1 DEF Quiet, AtPc, Connected
  <2>6. \A k \in Listener : Running(k)' => Running(k)
    BY <1>1, <1>3 DEF Running, AtPc
  <2>7. db'.mode = "non_interactive" => host # "working"
    BY <1>2, <2>1 DEF Quiet, Wakes
  <2> QED
    BY <1>2, <2>1, <2>2, <2>3, <2>4, <2>5, <2>6, <2>7 DEF Quiet, Wakes, session
<1> QED  BY <1>2, <1>3, <1>4, <1>5, <1>6, Typed, WakingFull DEF session, counts

(* A holder that gives up or wakes the host without an acknowledgement, and    *)
(* takes its listener with it.                                               *)
LEMMA EndedInv ==
  ASSUME IInv, NEW l \in Listener, Running(l), AtPc(l, {"wait", "ack", "duplicate", "start"}),
         \/ db' = Release(db, {l}) /\ l \in Active(db)
         \/ UNCHANGED db /\ (l \notin Active(db) \/ faults # 0),
         \/ Left(l)
         \/ Moved(l, "emit") /\ AtPc(l, {"ack"}),
         UNCHANGED <<session, suppressed, counts>>
  PROVE  IInv'
<1>1. Wakes(db, db')
  <2>1. CASE db' = Release(db, {l})  BY <2>1, Typed, ReleaseWakes
  <2>2. CASE UNCHANGED db  BY <2>2, Typed DEF Wakes, SameMail, SameAdm, Heard, NoneAcked
  <2> QED  BY <2>1, <2>2
<1>2. /\ holder' \in [Listener -> Holder]
      /\ \A k \in Listener : k # l => holder'[k] = holder[k]
      /\ \/ holder'[l].pc = "none" /\ holder'[l].m = NoMessage
         \/ holder'[l].pc = "emit" /\ holder'[l].m = holder[l].m /\ AtPc(l, {"ack"})
  BY LeftHolder, MovedHolder
<1>3. \A k \in Listener :
        /\ AtPc(k, {"ack", "duplicate"})' => AtPc(k, {"ack", "duplicate"}) /\ holder'[k].m = holder[k].m
        /\ \A m \in Message : db.del[m] = "none" => holder'[k].m # m
  BY <1>2, Ids DEF IInv, Unborn, AtPc, NoMessage
<1>4. Carries'  BY <1>2 DEF IInv, Carries, AtPc
<1>5. faults' = 0 => Quiet'
  <2> SUFFICES ASSUME faults' = 0  PROVE Quiet'
    OBVIOUS
  <2>1. Quiet /\ faults = 0  BY DEF IInv, QuietInv, counts
  <2>2. \A k \in Listener : AtPc(k, {"wait", "stage", "ack", "duplicate"})' => Connected(k)'
    BY <1>2, <2>1 DEF Quiet, AtPc, Connected
  <2>3. \A k \in Listener : Running(k)' => Running(k)  BY <1>2 DEF Running, AtPc
  <2>4. db'.mode = db.mode  BY <1>1 DEF Wakes
  <2>5. db.mode = "non_interactive" =>
           /\ host # "working" /\ \A j, k \in Listener : Running(j)' /\ Running(k)' => j = k
    BY <2>1, <2>3 DEF Quiet
  <2>6. CASE db' = Release(db, {l}) /\ l \in Active(db)
    <3>1. Active(db) = {l} /\ db.ep # "retiring"  BY <2>1, <2>6 DEF Quiet, Parked
    <3>2. /\ db' \in Rows /\ SameEp(db, db')
          /\ db'.expired = db.expired \ {l} /\ db'.dropped = db.dropped \ {l}
          /\ \A k \in Listener : db'.lst[k] = IF k \in {l} THEN "ended" ELSE db.lst[k]
          /\ \A m \in Message :
                IF db.pres[m] \in {"pending", "late"} /\ db.on[m] \in {l}
                THEN db'.pres[m] = "missed" /\ db'.on[m] = NoListener
                ELSE db'.pres[m] = db.pres[m] /\ db'.on[m] = db.on[m]
      BY <2>6, ReleaseRows, Typed
    <3> QED  BY <2>1, <2>2, <2>4, <2>5, <3>1, <3>2, AllEnded DEF session, SameEp
  <2>7. CASE UNCHANGED db /\ l \notin Active(db)
    <3>1. Active(db)' = Active(db)  BY <2>7
    <3>2. \A k \in Active(db) : k # l /\ k \in Listener  BY <2>7 DEF Active
    <3>3. ASSUME NEW k \in Active(db)  PROVE Parked(k)'
      BY <1>2, <2>1, <2>7, <3>1, <3>2 DEF Quiet, Parked, AtPc
    <3> QED  BY <2>1, <2>2, <2>5, <2>7, <3>1, <3>3 DEF Quiet, session
  <2> QED  BY <2>1, <2>6, <2>7
<1> QED  BY <1>1, <1>2, <1>3, <1>4, <1>5, Typed, WakingFull DEF session, counts

LEMMA AttachInv ==
  ASSUME IInv, NEW l \in Listener, Attach(l)  PROVE IInv'
<1> DEFINE pending == PendingOn(db, l)
<1>1. AtPc(l, {"start"}) /\ UNCHANGED <<session, suppressed, counts>>  BY DEF Attach
<1>2. CASE l \in Active(db) /\ l \notin db.expired
  <2>1. CASE pending = {}
    <3> DEFINE s == IF db.lst[l] = "parked" THEN "attached" ELSE db.lst[l]
               h == [NoHolder EXCEPT !.pc = "wait", !.up = TRUE]
    <3>1. db' = [db EXCEPT !.lst[l] = s] /\ holder' = [holder EXCEPT ![l] = h]
      BY <1>2, <2>1, Typed DEF Attach, Rows
    <3>2. s \in {"parked", "attached", "waking"} /\ (s = "waking" <=> db.lst[l] = "waking")
      BY <1>2 DEF Active
    <3>3. h \in Holder /\ h.pc = "wait" /\ h.m = NoMessage /\ h.up  BY DEF NoHolder, Holder
    <3> HIDE DEF s, h
    <3> QED  BY <1>1, <1>2, <2>1, <3>1, <3>2, <3>3, AttachedInv
  <2>2. CASE pending # {}
    <3> DEFINE h == [pc |-> "stage", m |-> Min(pending), up |-> TRUE]
    <3>1. db' = [db EXCEPT !.lst[l] = "waking"] /\ holder' = [holder EXCEPT ![l] = h]
      BY <1>2, <2>2 DEF Attach
    <3>2. Min(pending) \in pending /\ Min(pending) \in Message /\ Min(pending) # NoMessage
      BY <2>2, OldestOf, Ids DEF PendingOn, NoMessage
    <3>3. h \in Holder /\ h.pc = "stage" /\ h.m = Min(pending) /\ h.up  BY <3>2 DEF Holder
    <3> HIDE DEF h
    <3> QED  BY <1>1, <1>2, <2>2, <3>1, <3>2, <3>3, AttachedInv
  <2> QED  BY <2>1, <2>2
<1>3. CASE ~(l \in Active(db) /\ l \notin db.expired)
  <2>1. Left(l) /\ UNCHANGED db  BY <1>3 DEF Attach
  <2>2. l \notin Active(db) \/ faults # 0  BY <1>3 DEF IInv, QuietInv, Quiet
  <2> QED  BY <1>1, <2>1, <2>2, EndedInv DEF Running, AtPc
<1> QED  BY <1>2, <1>3

(* What is staged before it is acknowledged is in front of the session.       *)
LEMMA StageInv ==
  ASSUME IInv, NEW l \in Listener, Stage(l)  PROVE IInv'
<1> DEFINE m == holder[l].m
<1>1. /\ AtPc(l, {"stage"}) /\ m \in Message
      /\ UNCHANGED <<db, host, pre, told, woke, suppressed, counts>>
  BY DEF Stage, StageEntry, IInv, Carries, AtPc
<1>2. PICK pc \in {"ack", "duplicate"} :
        /\ Moved(l, pc) /\ scratch \subseteq scratch' /\ scratch' \subseteq scratch \cup {m}
        /\ pc = "duplicate" => m \in woke
        /\ pc = "ack" => m \in scratch'
  BY DEF Stage, StageEntry
<1>3. /\ holder' \in [Listener -> Holder]
      /\ holder'[l].pc = pc /\ holder'[l].m = m /\ holder'[l].up = holder[l].up
      /\ \A k \in Listener : k # l => holder'[k] = holder[k]
  BY <1>2, MovedHolder
<1> HIDE DEF m
<1>4. TypeOK'  BY <1>1, <1>2, <1>3, Typed, TypedNext DEF counts
<1>5. Carries'  BY <1>1, <1>3 DEF IInv, Carries, AtPc
<1>6. Unborn'  BY <1>1, <1>3 DEF IInv, Unborn, m
<1>7. ShownInv'
  <2> SUFFICES ASSUME NEW n \in Unread(db), Vouched(n)'  PROVE n \in scratch' \cup told
    BY <1>1 DEF ShownInv, Shown
  <2>1. Vouched(n) \/ (pc = "ack" /\ n = m)
    BY <1>1, <1>2, <1>3 DEF Vouched, AtPc
  <2> QED  BY <1>2, <2>1 DEF IInv, ShownInv, Shown
<1>8. RingInv'  BY <1>1, <1>2, RingSame DEF Shown
<1>9. QuietInv'
  <2> SUFFICES ASSUME faults = 0  PROVE Quiet'
    BY <1>1 DEF QuietInv, counts
  <2>1. Quiet  BY DEF IInv, QuietInv
  <2>2. \A k \in Listener :
          /\ AtPc(k, {"start", "wait", "stage", "ack", "duplicate"}) =>
                AtPc(k, {"start", "wait", "stage", "ack", "duplicate"})'
          /\ AtPc(k, {"wait", "stage", "ack", "duplicate"})' =>
                AtPc(k, {"wait", "stage", "ack", "duplicate"})
          /\ holder'[k].up = holder[k].up /\ (Running(k)' <=> Running(k))
    BY <1>1, <1>3 DEF AtPc, Running
  <2>3. ASSUME NEW k \in Active(db)  PROVE Parked(k)'
    BY <1>1, <2>1, <2>2 DEF Quiet, Parked, Active
  <2> QED  BY <1>1, <2>1, <2>2, <2>3 DEF Quiet, Connected
<1> QED  BY <1>4, <1>5, <1>6, <1>7, <1>8, <1>9 DEF IInv

LEMMA AcknowledgeInv ==
  ASSUME IInv, NEW l \in Listener, Acknowledge(l)  PROVE IInv'
<1> DEFINE m == holder[l].m
<1>1. /\ AtPc(l, {"ack", "duplicate"}) /\ m \in Message /\ Acknowledgeable(l)
      /\ db' = Acked(db, l, m) /\ UNCHANGED <<session, counts>>
      /\ AfterAck(l) /\ suppressed' \in BOOLEAN
  BY Typed DEF Acknowledge, IInv, Carries, AtPc
<1>2. /\ db.lst[l] \in {"attached", "waking"} /\ db.pres[m] = "pending" /\ db.on[m] = l
  BY <1>1 DEF Acknowledgeable
<1>3. /\ holder' \in [Listener -> Holder]
      /\ \A k \in Listener : k # l => holder'[k] = holder[k]
      /\ \/ holder'[l].pc = "none" /\ holder'[l].m = NoMessage
         \/ holder'[l].pc = "emit" /\ holder'[l].m = m
  BY <1>1, LeftHolder, MovedHolder DEF AfterAck
<1> HIDE DEF m
<1>4. /\ db' \in Rows
      /\ SameMail(db, db') /\ SameBell(db, db')
      /\ \A n \in Message : db.adm[n] # "closed" => db'.adm[n] # "closed"
      /\ db'.mode = db.mode /\ db'.armed = db.armed
      /\ db'.ep = IF db.ep = "retiring" THEN db.ep ELSE "busy"
      /\ db'.expired = db.expired \ {l} /\ db'.dropped = db.dropped \ {l}
      /\ \A k \in Listener : db'.lst[k] = IF k = l THEN "ended" ELSE db.lst[k]
      /\ db'.pres = [db.pres EXCEPT ![m] = "acked"]
      /\ db'.on = [db.on EXCEPT ![m] = NoListener]
  <2>1. db \in Rows /\ m \in Message  BY <1>1, Typed
  <2> QED  BY <1>1, <2>1, AckedRows
<1>5. /\ \A n \in Message : db'.pres[n] = IF n = m THEN "acked" ELSE db.pres[n]
      /\ \A n \in Message : db'.on[n] = IF n = m THEN NoListener ELSE db.on[n]
  BY <1>1, <1>4, Typed, Fields
<1>6. Unread(db') = Unread(db)  BY <1>4 DEF Unread, SameMail
<1>7. TypeOK'  BY <1>1, <1>3, <1>4, Typed, TypedNext DEF session, counts
<1>8. Carries'  BY <1>1, <1>3 DEF IInv, Carries, AtPc
<1>9. Unborn'
  <2>1. db.del[m] # "none"  BY <1>1, <1>2 DEF IInv, Unborn
  <2>2. \A k \in Listener : holder'[k].m \in {holder[k].m, NoMessage}  BY <1>3 DEF m
  <2>3. woke' = woke  BY <1>1 DEF session
  <2> QED  BY <1>4, <1>5, <2>1, <2>2, <2>3, Ids DEF IInv, Unborn, SameMail, NoMessage
<1>10. ShownInv'
  <2> SUFFICES ASSUME NEW n \in Unread(db), Vouched(n)'  PROVE Shown(n)
    BY <1>1, <1>6 DEF ShownInv, Shown, session
  <2>1. n \in Message  BY DEF Unread
  <2>2. Vouched(n)
    <3>1. Vouched(m)  BY <1>1 DEF Vouched, m
    <3>2. CASE n # m
      BY <1>1, <1>3, <1>5, <2>1, <3>2 DEF Vouched, AtPc, session
    <3> QED  BY <3>1, <3>2
  <2> QED  BY <2>2 DEF IInv, ShownInv
<1>11. RingInv'  BY <1>1, <1>4, <1>6, RingSame DEF session, SameBell, Shown
<1>12. QuietInv'
  <2> SUFFICES ASSUME faults = 0  PROVE Quiet'
    BY <1>1 DEF QuietInv, counts
  <2>1. Quiet  BY DEF IInv, QuietInv
  <2>2. Active(db) = {l}  BY <1>2, <2>1 DEF Quiet, Parked, Active
  <2>3. Active(db') = {}  BY <1>4, <2>2 DEF Active
  <2>4. \A n \in Message : db'.pres[n] \notin {"pending", "late"}
    BY <1>1, <1>2, <1>5, <2>1 DEF Quiet
  <2>5. /\ \A k \in Listener : AtPc(k, {"wait", "stage", "ack", "duplicate"})' => Connected(k)'
        /\ \A k \in Listener : Running(k)' => Running(k)
    BY <1>1, <1>3, <2>1 DEF Quiet, AtPc, Connected, Running
  <2>6. db.mode = "non_interactive" => host # "working"
    BY <1>1, <2>1 DEF Quiet, Running, AtPc
  <2> QED
    BY <1>1, <1>4, <2>1, <2>3, <2>4, <2>5, <2>6 DEF Quiet, session
<1> QED  BY <1>7, <1>8, <1>9, <1>10, <1>11, <1>12 DEF IInv

LEMMA EmitInv ==
  ASSUME IInv, NEW l \in Listener, Emit(l)  PROVE IInv'
<1> DEFINE m == holder[l].m
<1>1. /\ AtPc(l, {"emit"}) /\ m \in Message /\ Left(l)
      /\ host' = "working" /\ told' = told \cup ({m} \cap Unread(db)) /\ woke' = woke \cup {m}
      /\ UNCHANGED <<db, pre, scratch, suppressed, counts>>
  BY DEF Emit, IInv, Carries, AtPc
<1>2. /\ holder' \in [Listener -> Holder]
      /\ holder'[l].pc = "none" /\ holder'[l].m = NoMessage
      /\ \A k \in Listener : k # l => holder'[k] = holder[k]
  BY <1>1, LeftHolder
<1>3. db.del[m] # "none"  BY <1>1 DEF IInv, Unborn
<1> HIDE DEF m
<1>4. TypeOK'  BY <1>1, <1>2, Typed, TypedNext DEF counts
<1>5. Carries'  BY <1>2 DEF IInv, Carries, AtPc
<1>6. Unborn'  BY <1>1, <1>2, <1>3, Ids DEF IInv, Unborn, NoMessage
<1>7. ShownInv'
  <2> SUFFICES ASSUME NEW n \in Unread(db), Vouched(n)'  PROVE n \in scratch \cup told'
    BY <1>1 DEF ShownInv, Shown
  <2>1. Vouched(n) \/ n = m  BY <1>1, <1>2 DEF Vouched, AtPc
  <2> QED  BY <1>1, <2>1 DEF IInv, ShownInv, Shown
<1>8. RingInv'  BY <1>1, RingSame DEF Shown
<1>9. QuietInv'
  <2> SUFFICES ASSUME faults = 0  PROVE Quiet'
    BY <1>1 DEF QuietInv, counts
  <2>1. Quiet  BY DEF IInv, QuietInv
  <2>2. l \notin Active(db)  BY <1>1, <2>1 DEF Quiet, Parked, AtPc
  <2>3. ASSUME NEW k \in Active(db)  PROVE Parked(k)' /\ k # l /\ k \in Listener /\ Running(k)
    BY <1>1, <1>2, <2>1, <2>2 DEF Quiet, Parked, AtPc, Active, Running
  <2>4. /\ \A k \in Listener : AtPc(k, {"wait", "stage", "ack", "duplicate"})' => Connected(k)'
        /\ \A k \in Listener : Running(k)' => Running(k) /\ k # l
    BY <1>2, <2>1 DEF Quiet, AtPc, Connected, Running
  <2>5. Running(l)  BY <1>1 DEF Running, AtPc
  <2>6. db.mode = "non_interactive" => Active(db) = {} /\ \A k \in Listener : ~Running(k)'
    BY <2>1, <2>3, <2>4, <2>5 DEF Quiet
  <2> QED  BY <1>1, <2>1, <2>3, <2>4, <2>6 DEF Quiet
<1> QED  BY <1>4, <1>5, <1>6, <1>7, <1>8, <1>9 DEF IInv

LEMMA NotConnected ==
  ASSUME IInv, NEW l \in Listener, AtPc(l, {"wait", "ack", "duplicate"}), ~(Connected(l) /\ l \in Active(db))
  PROVE  l \notin Active(db) \/ faults # 0
BY DEF IInv, QuietInv, Quiet, AtPc

LEMMA AckRefusedInv ==
  ASSUME IInv, NEW l \in Listener, AckRefused(l)  PROVE IInv'
<1>1. /\ AtPc(l, {"ack", "duplicate"}) /\ AfterAck(l)
      /\ db' = IF Connected(l) /\ l \in Active(db) THEN Release(db, {l}) ELSE db
      /\ UNCHANGED <<session, suppressed, counts>>
  BY DEF AckRefused
<1>2. AtPc(l, {"wait", "ack", "duplicate"}) /\ Running(l)  BY <1>1 DEF AtPc, Running
<1>3. Left(l) \/ (Moved(l, "emit") /\ AtPc(l, {"ack"}))  BY <1>1 DEF AfterAck
<1>4. AtPc(l, {"wait", "ack", "duplicate", "start"})  BY <1>2 DEF AtPc
<1> QED  BY <1>1, <1>2, <1>3, <1>4, NotConnected, EndedInv

LEMMA LeaveInv ==
  ASSUME IInv, NEW l \in Listener, Leave(l)  PROVE IInv'
<1>1. /\ AtPc(l, {"wait", "ack", "duplicate"}) /\ Left(l)
      /\ db' = IF Connected(l) /\ l \in Active(db) THEN Release(db, {l}) ELSE db
      /\ UNCHANGED <<session, suppressed, counts>>
  BY DEF Leave
<1>2. AtPc(l, {"wait", "ack", "duplicate", "start"}) /\ Running(l)  BY <1>1 DEF AtPc, Running
<1> QED  BY <1>1, <1>2, NotConnected, EndedInv

(* A holder that goes while something has failed.                             *)
LEMMA GoneInv ==
  ASSUME IInv, NEW l \in Listener, Left(l), Wakes(db, db'), faults' \in Nat \ {0},
         UNCHANGED <<session, suppressed, prompts>>
  PROVE  IInv'
<1>1. /\ holder' \in [Listener -> Holder]
      /\ holder'[l].pc = "none" /\ holder'[l].m = NoMessage
      /\ \A k \in Listener : k # l => holder'[k] = holder[k]
  BY LeftHolder
<1>2. \A k \in Listener :
        /\ AtPc(k, {"ack", "duplicate"})' => AtPc(k, {"ack", "duplicate"}) /\ holder'[k].m = holder[k].m
        /\ \A m \in Message : db.del[m] = "none" => holder'[k].m # m
  BY <1>1, Ids DEF IInv, Unborn, AtPc, NoMessage
<1>3. Carries'  BY <1>1 DEF IInv, Carries, AtPc
<1> QED  BY <1>1, <1>2, <1>3, Typed, WakingFull DEF session

LEMMA ParkTimeoutInv ==
  ASSUME IInv, NEW l \in Listener, ParkTimeout(l)  PROVE IInv'
<1>1. faults # 0  BY DEF ParkTimeout, IInv, QuietInv, Quiet
<1>2. Wakes(db, db')
  <2>1. CASE db' = ExpirePark(db, l)  BY <2>1, Typed, ExpireRows
  <2>2. CASE db' = db  BY <2>2, Typed DEF Wakes, SameMail, SameAdm, Heard, NoneAcked
  <2> QED  BY <2>1, <2>2 DEF ParkTimeout
<1>3. Left(l) /\ UNCHANGED <<session, suppressed, counts>>  BY DEF ParkTimeout
<1> QED  BY <1>1, <1>2, <1>3, GoneInv, Typed DEF counts

LEMMA HolderInv ==
  ASSUME IInv, NEW l \in Listener, HolderStep(l)  PROVE IInv'
BY AttachInv, StageInv, AcknowledgeInv, AckRefusedInv, EmitInv, LeaveInv, ParkTimeoutInv DEF HolderStep

-----------------------------------------------------------------------------
(* The daemon's timers and the faults. *)

LEMMA SomeRows ==
  ASSUME NEW d \in Rows, NEW e \in Rows, SameMail(d, e), SameAdm(d, e), SameBell(d, e), e.pres = d.pres,
         e.mode = d.mode, e.armed = d.armed
  PROVE  Wakes(d, e)
BY DEF Wakes, SameBell, Heard, NoneAcked

LEMMA ReconcileInv ==
  ASSUME IInv, Reconcile  PROVE IInv'
<1>1. PICK l \in Active(db) :
        \/ Late(db, l) # {} /\ db' = MissLate(db, l, l \in db.dropped)
        \/ l \in db.expired /\ db' = ExpirePark(db, l)
        \/ l \in db.dropped /\ db' = [db EXCEPT !.lst[l] = "parked", !.dropped = {}]
  BY DEF Reconcile
<1>2. l \in Listener /\ db \in Rows  BY Typed DEF Active
<1>3. faults # 0  BY <1>1 DEF IInv, QuietInv, Quiet, Late, PendingOn
<1>4. Wakes(db, db')
  <2>1. CASE db' = MissLate(db, l, l \in db.dropped)  BY <1>2, <2>1, MissLateRows
  <2>2. CASE db' = ExpirePark(db, l)  BY <1>2, <2>2, ExpireRows
  <2>3. CASE db' = [db EXCEPT !.lst[l] = "parked", !.dropped = {}]
    <3>1. /\ db' \in Rows /\ SameMail(db, db') /\ SameAdm(db, db') /\ SameBell(db, db')
          /\ db'.pres = db.pres /\ db'.mode = db.mode /\ db'.armed = db.armed
      BY <1>2, <2>3 DEF Rows, SameMail, SameAdm, SameBell
    <3> QED  BY <1>2, <3>1, SomeRows
  <2> QED  BY <1>1, <2>1, <2>2, <2>3
<1>5. UNCHANGED <<holder, session, suppressed, counts>>  BY DEF Reconcile
<1> QED  BY <1>3, <1>4, <1>5, WakingStill, Typed DEF session, counts

LEMMA KeepLiveOwnerInv ==
  ASSUME IInv, KeepLiveOwner  PROVE IInv'
<1>1. faults # 0  BY DEF KeepLiveOwner, IInv, QuietInv, Quiet
<1>2. db \in Rows /\ db' = [db EXCEPT !.ep = "idle"]  BY Typed DEF KeepLiveOwner
<1>3. /\ db' \in Rows /\ SameMail(db, db') /\ SameAdm(db, db') /\ SameBell(db, db')
      /\ db'.pres = db.pres /\ db'.mode = db.mode /\ db'.armed = db.armed
  BY <1>2 DEF Rows, SameMail, SameAdm, SameBell
<1>4. Wakes(db, db')  BY <1>2, <1>3, SomeRows
<1> QED  BY <1>1, <1>4, WakingStill, Typed DEF KeepLiveOwner, session, counts

LEMMA AckDeadlineInv ==
  ASSUME IInv, NEW m \in Message, AckDeadline(m)  PROVE IInv'
<1>1. db.pres[m] = "pending" /\ db \in Rows /\ db' = [db EXCEPT !.pres[m] = "late"]
  BY Typed DEF AckDeadline
<1>2. /\ db' \in Rows /\ SameMail(db, db') /\ SameAdm(db, db') /\ SameBell(db, db')
      /\ db'.mode = db.mode /\ db'.armed = db.armed
      /\ db'.pres = [db.pres EXCEPT ![m] = "late"]
  BY <1>1 DEF Rows, SameMail, SameAdm, SameBell
<1>3. \A n \in Message : db'.pres[n] = IF n = m THEN "late" ELSE db.pres[n]
  BY <1>1, <1>2, Fields
<1>4. Wakes(db, db')  BY <1>1, <1>2, <1>3 DEF Wakes, SameBell, Heard, NoneAcked
(* While all is quiet a pending presentation has a holder that runs.           *)
<1>5. faults = 0 => Running(db.on[m])
  BY <1>1 DEF IInv, QuietInv, Quiet, Parked, Running, AtPc
<1>6. faults' \in Nat \ {0}  BY <1>5, Typed DEF AckDeadline
<1> QED  BY <1>4, <1>6, WakingStill, Typed DEF AckDeadline, session

LEMMA FaultInv ==
  ASSUME IInv, Fault  PROVE IInv'
<1>1. faults' \in Nat \ {0} /\ faults' = faults + 1 /\ UNCHANGED prompts  BY Typed DEF Fault
<1>2. CASE DaemonRestarts
  <2>1. /\ holder' = [l \in Listener |-> [holder[l] EXCEPT !.up = FALSE]]
        /\ db' = [db EXCEPT !.dropped = Active(db)] /\ UNCHANGED <<session, suppressed>>
    BY <1>2 DEF DaemonRestarts
  <2>2. /\ holder' \in [Listener -> Holder]
        /\ \A l \in Listener : holder'[l].pc = holder[l].pc /\ holder'[l].m = holder[l].m
    BY <2>1, Typed DEF Holder
  <2>3. db \in Rows /\ Active(db) \in SUBSET Listener  BY Typed DEF Active
  <2>4. /\ db' \in Rows /\ SameMail(db, db') /\ SameAdm(db, db') /\ SameBell(db, db')
        /\ db'.pres = db.pres /\ db'.mode = db.mode /\ db'.armed = db.armed
    BY <2>1, <2>3 DEF Rows, SameMail, SameAdm, SameBell
  <2>5. Wakes(db, db')  BY <2>3, <2>4, SomeRows
  <2>6. \A l \in Listener :
          /\ AtPc(l, {"ack", "duplicate"})' => AtPc(l, {"ack", "duplicate"}) /\ holder'[l].m = holder[l].m
          /\ \A m \in Message : db.del[m] = "none" => holder'[l].m # m
    BY <2>2 DEF IInv, Unborn, AtPc
  <2>7. Carries'  BY <2>2 DEF IInv, Carries, AtPc
  <2> QED  BY <1>1, <2>1, <2>2, <2>5, <2>6, <2>7, WakingFull, Typed DEF session
<1>3. ASSUME NEW l \in Listener, ParkDeadline(l)  PROVE IInv'
  <2>1. db \in Rows /\ db' = [db EXCEPT !.expired = @ \cup {l}] /\ UNCHANGED <<holder, session, suppressed>>
    BY <1>3, Typed DEF ParkDeadline
  <2>2. /\ db' \in Rows /\ SameMail(db, db') /\ SameAdm(db, db') /\ SameBell(db, db')
        /\ db'.pres = db.pres /\ db'.mode = db.mode /\ db'.armed = db.armed
    BY <2>1 DEF Rows, SameMail, SameAdm, SameBell
  <2>3. Wakes(db, db')  BY <2>1, <2>2, SomeRows
  <2> QED  BY <1>1, <2>1, <2>3, WakingStill, Typed DEF session
<1>4. ASSUME NEW l \in Listener, HolderDies(l)  PROVE IInv'
  <2>1. /\ db \in Rows /\ Left(l) /\ UNCHANGED <<session, suppressed>>
        /\ db' = db \/ db' = [db EXCEPT !.dropped = @ \cup {l}]
    BY <1>4, Typed DEF HolderDies
  <2>2. /\ db' \in Rows /\ SameMail(db, db') /\ SameAdm(db, db') /\ SameBell(db, db')
        /\ db'.pres = db.pres /\ db'.mode = db.mode /\ db'.armed = db.armed
    BY <2>1 DEF Rows, SameMail, SameAdm, SameBell
  <2>3. Wakes(db, db')  BY <2>1, <2>2, SomeRows
  <2> QED  BY <1>1, <2>1, <2>3, GoneInv
<1>5. CASE MarkNothing  BY <1>1, <1>5, MarkNothingInv
<1> QED  BY <1>2, <1>3, <1>4, <1>5 DEF Fault

LEMMA StutterInv ==
  ASSUME IInv, UNCHANGED vars  PROVE IInv'
<1>1. Turns /\ Unread(db') = Unread(db) /\ db'.bell = db.bell  BY OwnTurn DEF vars
<1>2. UNCHANGED <<host, pre, scratch, told, woke, suppressed, prompts, faults>>
  BY DEF vars, session, counts
<1>3. RingInv'  BY <1>1, <1>2, RingSame DEF Shown, vars
<1> QED  BY <1>1, <1>2, <1>3, TurnInv, Typed DEF Shown, vars

LEMMA RefusedInv ==
  ASSUME IInv, PreToolRefused  PROVE IInv'
BY MarkNothingInv, Typed DEF PreToolRefused, counts

LEMMA NextInv == IInv /\ [Next]_vars => IInv'
<1> SUFFICES ASSUME IInv, [Next]_vars  PROVE IInv'
  OBVIOUS
<1>1. ASSUME NEW m \in Message, Commit(m) \/ Receive(m) \/ AckDeadline(m)  PROVE IInv'
  BY <1>1, CommitInv, ReceiveInv, AckDeadlineInv
<1>2. CASE Arm \/ Prompt \/ PreToolCapture \/ PreToolPeek \/ PreToolMark \/ PreToolRefused
  BY <1>2, ArmInv, PromptInv, CaptureInv, PeekInv, MarkInv, RefusedInv
<1>3. CASE PostTool \/ Stop \/ Reconcile \/ ArmRetry \/ KeepLiveOwner \/ Fault
  BY <1>3, PostToolInv, StopInv, ReconcileInv, ArmRetryInv, KeepLiveOwnerInv, FaultInv
<1>4. ASSUME NEW l \in Listener, HolderStep(l)  PROVE IInv'
  BY <1>4, HolderInv
<1> QED  BY <1>1, <1>2, <1>3, <1>4, StutterInv DEF Next

LEMMA Inductive == Spec => []IInv
BY InitInv, NextInv, PTL DEF Spec

-----------------------------------------------------------------------------
(* The theorems. *)

(* Every variable keeps its shape.                                            *)
THEOREM WakeTypes == Spec => []TypeOK
<1>1. IInv => TypeOK  BY DEF IInv
<1> QED  BY <1>1, Inductive, PTL

(* The daemon's acknowledgement that a message was received is never ahead of  *)
(* the session: what a holder acknowledges is staged or told, whoever dies    *)
(* between staging, acknowledging and waking.                                *)
THEOREM AckedIsInFront == Spec => []AckedIsShown
<1>1. IInv => AckedIsShown  BY DEF IInv, ShownInv, Vouched, Shown, AckedIsShown
<1> QED  BY <1>1, Inductive, PTL

(* Unread mail is noticed by the next tool call or its oldest message was named *)
(* already: no ring is lost between a hook's capture, peek and mark.          *)
THEOREM NoRingIsLost == Spec => []OldestIsSignalled
<1>1. IInv => OldestIsSignalled  BY DEF IInv, RingInv, Shown, OldestIsSignalled
<1> QED  BY <1>1, Inductive, PTL

(* What the end of a turn without faults leaves behind.                       *)
Accounted ==
  \/ \A m \in Unread(db) : m \in told \/ db.pres[m] = "acked"
  \/ \E m \in Unread(db) : db.blocks[m] = StopBlockCap
  \/ \E l \in Active(db') : PendingOn(db', l) # {}

LEMMA UncappedIsNone ==
  ASSUME IInv, ~MustBlock(db), Presentable(db) # {}
  PROVE  \E m \in Unread(db) : db.blocks[m] = StopBlockCap
<1> DEFINE m == Min(Presentable(db))
<1>1. m \in Presentable(db) /\ m \in Message  BY OldestOf DEF Presentable, Unread
<1>2. ~(db.blocks[m] < StopBlockCap)  BY DEF MustBlock
<1> HIDE DEF m
<1>3. db.blocks[m] \in 0..StopBlockCap  BY <1>1, Typed, Fields
<1>4. db.blocks[m] = StopBlockCap  BY <1>2, <1>3, WakeAssumption
<1> QED  BY <1>1, <1>4 DEF Presentable

LEMMA StopAccounts ==
  ASSUME IInv, Stop, host' = "idle", db.ep # "retiring", faults = 0
  PROVE  Accounted
<1>1. Quiet  BY DEF IInv, QuietInv
<1>2. PICK background \in BOOLEAN :
        IF Parks(db, background) THEN StopReuses \/ StopParks ELSE StopBlocked \/ StopAllowed
  BY DEF Stop
<1>3. host = "working" /\ ~StopBlocked  BY DEF Stop, StopBlocked
<1>4. \A m \in Unread(db) \ Presentable(db) : db.pres[m] \in {"pending", "acked"}
  BY <1>1 DEF Presentable, Unread, Quiet
<1>5. CASE StopReuses
  <2>1. PICK l \in Active(db) : TRUE  BY <1>5 DEF StopReuses
  <2>2. db' = MarkIdle(db)  BY <1>5 DEF StopReuses
  <2>3. db'.lst = db.lst /\ db'.pres = db.pres /\ db'.on = db.on
    BY <2>2, IdleRows, Typed DEF SameWake
  <2>4. Active(db') = Active(db) /\ \A k : PendingOn(db', k) = PendingOn(db, k)
    BY <2>3 DEF Active, PendingOn
  <2>5. Parked(l)  BY <1>1 DEF Quiet
  <2> QED  BY <2>1, <2>4, <2>5 DEF Parked, Accounted
<1>6. CASE StopParks
  <2> PICK l : l = Min(Free(db))  OBVIOUS
  <2> DEFINE b == [db EXCEPT !.lst[l] = "parked"]
             d == MarkIdle(b)
  <2>1. db' = IF Presentable(d) = {} THEN d ELSE Present(d, l, Min(Presentable(d)))
    BY <1>6 DEF StopParks
  <2>2. l \in Listener /\ Active(db) = {}
    <3>1. Free(db) \in SUBSET Nat /\ Free(db) # {} /\ Free(db) \in SUBSET Listener
      BY <1>6, Ids DEF StopParks, Free
    <3> QED  BY <1>6, <3>1, Oldest DEF StopParks
  <2>3. b \in Rows /\ b.del = db.del /\ b.pres = db.pres  BY <2>2, Typed DEF Rows
  <2> HIDE DEF b
  <2>4. d \in Rows /\ d.del = db.del /\ d.pres = db.pres
    BY <2>3, IdleRows DEF SameMail, SameWake
  <2> HIDE DEF d
  <2>5. Presentable(d) = Presentable(db)  BY <2>4 DEF Presentable, Unread
  <2>6. CASE Presentable(d) = {}
    <3>1. \A m \in Unread(db) : db.pres[m] = "acked"
      BY <1>1, <1>4, <2>2, <2>5, <2>6 DEF Quiet, Unread
    <3> QED  BY <3>1 DEF Accounted
  <2>7. CASE Presentable(d) # {}
    <3> PICK m \in Message : m = Min(Presentable(d))
      BY <2>7, OldestOf DEF Presentable, Unread
    <3>1. db' = Present(d, l, m)  BY <2>1, <2>7
    <3>2. db'.pres = [d.pres EXCEPT ![m] = "pending"] /\ db'.on = [d.on EXCEPT ![m] = l]
          /\ db'.lst = [d.lst EXCEPT ![l] = "waking"]
      BY <2>2, <2>4, <3>1, PresentRows
    <3>3. db'.pres[m] = "pending" /\ db'.on[m] = l /\ db'.lst[l] = "waking"
      BY <2>2, <2>4, <3>2, Fields
    <3>4. l \in Active(db') /\ m \in PendingOn(db', l)
      BY <2>2, <3>3 DEF Active, PendingOn
    <3> QED  BY <3>4 DEF Accounted
  <2> QED  BY <2>6, <2>7
(* A turn that ends without a park: nothing is parked that could be pending.   *)
<1>7. CASE StopAllowed /\ ~Parks(db, background)
  <2>1. ~MustBlock(db)  BY <1>7 DEF StopAllowed
  <2>2. CASE Presentable(db) # {}  BY <2>1, <2>2, UncappedIsNone DEF Accounted
  <2>3. CASE Presentable(db) = {}
    <3>1. ASSUME NEW l \in Active(db)  PROVE FALSE
      <4>1. Parked(l)  BY <1>1 DEF Quiet
      <4>2. CASE db.mode = "interactive"  BY <1>7, <4>1, <4>2 DEF Parked, Parks
      <4>3. CASE db.mode = "non_interactive"  BY <1>1, <1>3, <4>3 DEF Quiet
      <4> QED  BY <4>2, <4>3, Typed, Fields
    <3>2. \A m \in Unread(db) : db.pres[m] = "acked"
      BY <1>1, <1>4, <2>3, <3>1 DEF Quiet, Unread
    <3> QED  BY <3>2 DEF Accounted
  <2> QED  BY <2>2, <2>3
<1> QED  BY <1>2, <1>3, <1>5, <1>6, <1>7

(* A turn without faults never ends in silence: whatever is unread was told,   *)
(* blocked on as often as the gate may, or is presented by the new park.      *)
THEOREM NoTurnEndsSilently == Spec => NoSilentStop
<1>1. IInv /\ [Next]_vars =>
        [(Stop /\ host' = "idle" /\ db.ep # "retiring" /\ faults = 0) =>
           \/ \A m \in Unread(db) : m \in told \/ db.pres[m] = "acked"
           \/ \E m \in Unread(db) : db.blocks[m] = StopBlockCap
           \/ \E l \in Active(db') : PendingOn(db', l) # {}]_vars
  BY StopAccounts DEF Accounted
<1> QED  BY <1>1, Inductive, PTL DEF Spec, NoSilentStop

=============================================================================
