--------------------------- MODULE KeptFileProofs ---------------------------
(***************************************************************************)
(* KeptFile implements LastGood, and its answers are fresh, for any number *)
(* of callers, writes and faults.  The argument: whatever is on disk and   *)
(* good is the last content that was given (Latest), the lock leaves one   *)
(* caller between its first look and its answer (Alone), so that what it   *)
(* read is no older than what is shown (TextOK); and what is marked as     *)
(* seen and was read is what is shown (Current).                           *)
(*                                                                         *)
(* Then the reads of Atlas, whose secret is such a file, for any reads,    *)
(* addresses, types, tables and terms.                                     *)
(***************************************************************************)
EXTENDS KeptFile, Atlas, FiniteSetTheorems, TLAPS

\* The file there is, or the one that can be moved back.
Latest == IF disk.id = Gone THEN aside ELSE disk

LatestOK ==
  /\ disk.id = Gone => disk.holds = Bad
  /\ Latest.holds # Bad => Latest.holds = offered
  /\ shown <= offered

\* No identity is ahead of the writes.
IdsOK ==
  /\ writes <= MaxWrites
  /\ disk.id <= writes + 1 /\ aside.id <= writes + 1
  /\ seen = Unseen \/ seen <= writes + 1
  /\ unread = Unseen \/ unread <= writes + 1
  /\ \A c \in Callers : call[c].id <= writes + 1

Alone == \A c \in Callers : call[c].at \in {"stat", "read", "keep"} => lock = {c}

TextOK == \A c \in Callers : call[c].at = "keep" => call[c].text > 0 /\ call[c].text <= offered /\ shown <= call[c].text

\* Before the first content is shown one caller reads, and nothing is marked.
StartOK ==
  /\ status = "serving" => shown > 0
  /\ status = "refused" => \A c \in Callers : call[c].at = "idle"
  /\ status = "starting" =>
       /\ shown = 0
       /\ \A c, d \in Callers : call[c].at # "idle" /\ call[d].at # "idle" => c = d
       /\ (\A c \in Callers : call[c].at \notin {"read", "keep"}) => seen = Unseen

KeptInv == TypeOK /\ LatestOK /\ IdsOK /\ Alone /\ TextOK /\ StartOK

-----------------------------------------------------------------------------
(* Types *)

Call == [at : {"idle", "waiting", "stat", "read", "keep"}, id : Nat, text : Nat]
Ask == [at : {"idle", "looked", "compare", "answered"}, for : Nat, listed : BOOLEAN, id : Nat, no : BOOLEAN, clear : BOOLEAN]
Since == [held : Nat, steady : BOOLEAN, missed : BOOLEAN]

\* The constants of a state have their types.
LEMMA Records == Idle \in Call /\ NotAsked \in Ask /\ Unseen \in Nat
  BY KeptFileAssumption DEF Idle, NotAsked, Call, Ask, Unseen, Gone, Bad

LEMMA DisturbsTyped ==
  ASSUME TypeOK, Disturbs
  PROVE  since' \in [Callers -> Since] /\ ask' \in [Askers -> Ask]
  <1>1. \A s \in Since : [s EXCEPT !.steady = FALSE] \in Since
    BY DEF Since
  <1>2. \A a \in Ask : [a EXCEPT !.clear = FALSE] \in Ask
    BY DEF Ask
  <1>3. since \in [Callers -> Since] /\ ask \in [Askers -> Ask]
    BY DEF TypeOK, Since, Ask
  <1> QED
    BY <1>1, <1>2, <1>3 DEF Disturbs

LEMMA TypeInit == Init => TypeOK
  BY Records, KeptFileAssumption DEF Init, TypeOK, Call, Ask, Gone, Bad

\* A call that is over leaves the types as they were.
LEMMA EndsTyped ==
  ASSUME TypeOK, NEW c \in Callers, NEW n \in Nat, Returns(c, n) \/ Raises(c)
  PROVE  /\ lock' \subseteq Callers /\ call' \in [Callers -> Call] /\ answer' \in [Callers -> Nat]
         /\ status' \in {"starting", "serving", "refused"}
  <1>1. call' = [call EXCEPT ![c] = Idle] /\ lock' = lock \ {c}
    BY DEF Returns, Raises
  <1>2. call' \in [Callers -> Call]
    BY <1>1, Records DEF TypeOK, Call
  <1> QED
    BY <1>1, <1>2 DEF TypeOK, Returns, Raises

LEMMA TypeStep == TypeOK /\ [Next]_vars => TypeOK'
  <1> SUFFICES ASSUME TypeOK, [Next]_vars PROVE TypeOK'
    OBVIOUS
  <1> USE DEF files, served, history
  <1>1. CASE Replace \/ Spoil
    BY <1>1, DisturbsTyped, KeptFileAssumption DEF TypeOK, Replace, Spoil, Written, Bad, Since, Ask
  <1>2. CASE MoveAway
    BY <1>2, DisturbsTyped DEF TypeOK, MoveAway, Gone, Bad, Since, Ask
  <1>3. CASE MoveBack
    BY <1>3 DEF TypeOK, MoveBack, Gone, Bad
  <1>4. ASSUME NEW c \in Callers, Begin(c) PROVE TypeOK'
    <2>1. [Idle EXCEPT !.at = "waiting"] \in Call
      BY Records DEF Call
    <2>2. [held |-> disk.holds, steady |-> Good, missed |-> unread = disk.id] \in Since
      <3>1. Good \in BOOLEAN /\ (unread = disk.id) \in BOOLEAN
        BY DEF Good
      <3> QED
        BY <3>1 DEF TypeOK, Since
    <2>3. call' \in [Callers -> Call]
      BY <1>4, <2>1 DEF Begin, TypeOK, Call
    <2>4. since' \in [Callers -> Since]
      BY <1>4, <2>2 DEF Begin, TypeOK, Since
    <2> QED
      BY <1>4, <2>3, <2>4 DEF Begin, TypeOK, Call, Since
  <1>5. ASSUME NEW c \in Callers, Take(c) PROVE TypeOK'
    BY <1>5, SMTT(60) DEF Take, TypeOK
  <1>6. ASSUME NEW c \in Callers, Stat(c) PROVE TypeOK'
    <2>1. seen' \in Nat
      BY <1>6 DEF Stat, Marked, TypeOK
    <2>2. [at |-> "read", id |-> disk.id, text |-> Bad] \in Call
      BY DEF TypeOK, Call, Bad
    <2>3. lock' \subseteq Callers /\ call' \in [Callers -> Call] /\ answer' \in [Callers -> Nat]
            /\ status' \in {"starting", "serving", "refused"}
      <3>1. CASE \E n \in Nat : Returns(c, n) \/ Raises(c)
        BY <3>1, EndsTyped
      <3>2. CASE /\ call' = [call EXCEPT ![c] = [at |-> "read", id |-> disk.id, text |-> Bad]]
                 /\ UNCHANGED <<lock, answer, status>>
        BY <3>2, <2>2 DEF TypeOK, Call
      <3> QED
        BY <1>6, <3>1, <3>2 DEF Stat, TypeOK
    <2>4. ask' \in [Askers -> Ask]
      <3> DEFINE notRead == call'[c].at # "read"
      <3>1. notRead \in BOOLEAN
        OBVIOUS
      <3>2. ask' = [m \in Askers |-> [ask[m] EXCEPT !.clear = @ /\ notRead]]
        BY <1>6 DEF Stat
      <3> HIDE DEF notRead
      <3>3. ASSUME NEW m \in Askers PROVE [ask[m] EXCEPT !.clear = @ /\ notRead] \in Ask
        BY <3>1 DEF TypeOK, Ask
      <3> QED
        BY <3>2, <3>3
    <2> QED
      BY <1>6, <2>1, <2>3, <2>4 DEF Stat, TypeOK, Call, Ask
  <1>7. ASSUME NEW c \in Callers, Read(c) PROVE TypeOK'
    <2>1. since' \in [Callers -> Since] /\ ask' \in [Askers -> Ask] /\ faults' \in Nat
      BY <1>7, DisturbsTyped DEF Read, TypeOK, Since, Ask
    <2>2. lock' \subseteq Callers /\ call' \in [Callers -> Call] /\ answer' \in [Callers -> Nat]
            /\ status' \in {"starting", "serving", "refused"} /\ seen' \in Nat /\ shown' \in Nat /\ unread' \in Nat
      <3>1. CASE Fails(c) \/ KeepsLast(c)
        <4>1. shown \in Nat /\ (Returns(c, shown) \/ Raises(c))
          BY <3>1 DEF Fails, KeepsLast, TypeOK
        <4>2. seen' \in Nat /\ shown' \in Nat /\ unread' \in Nat
          BY <3>1 DEF Fails, KeepsLast, TypeOK
        <4> QED
          BY <4>1, <4>2, EndsTyped
      <3>2. CASE Takes(c)
        <4>1. call' \in [Callers -> Call]
          <5>1. [at |-> "keep", id |-> call[c].id, text |-> disk.holds] \in Call
            BY DEF TypeOK, Call
          <5> QED
            BY <3>2, <5>1 DEF Takes, TypeOK, Call
        <4> QED
          BY <3>2, <4>1, <1>7 DEF Takes, Read, TypeOK, Good
      <3> QED
        BY <1>7, <3>1, <3>2 DEF Read
    <2> QED
      BY <1>7, <2>1, <2>2 DEF Read, TypeOK, Call, Since, Ask
  <1>8. ASSUME NEW c \in Callers, Keep(c) PROVE TypeOK'
    <2>1. call[c].text \in Nat /\ call[c].id \in Nat
      BY DEF TypeOK
    <2> QED
      BY <1>8, <2>1, EndsTyped DEF Keep, TypeOK, Call
  <1>9. ASSUME NEW m \in Askers, AskMaps(m) \/ LookAtDisk(m) \/ Compare(m) PROVE TypeOK'
    <2>1. ask' \in [Askers -> Ask]
      <3>1. CASE AskMaps(m)
        <4>1. [at |-> "looked", for |-> disk.holds, listed |-> shown >= disk.holds, id |-> Gone, no |-> FALSE,
               clear |-> ~Refreshing] \in Ask
          <5>1. (shown >= disk.holds) \in BOOLEAN /\ (~Refreshing) \in BOOLEAN
            OBVIOUS
          <5> QED
            BY <5>1 DEF TypeOK, Ask, Gone
        <4> QED
          BY <3>1, <4>1 DEF AskMaps, TypeOK, Ask
      <3>2. CASE LookAtDisk(m)
        <4>1. \A a \in Ask : \A n \in Nat : [a EXCEPT !.at = "compare", !.id = n] \in Ask
          BY DEF Ask
        <4>2. ask \in [Askers -> Ask] /\ disk.id \in Nat
          BY DEF TypeOK, Ask
        <4>3. ask' = [ask EXCEPT ![m] = [ask[m] EXCEPT !.at = "compare", !.id = disk.id]]
          BY <3>2, <4>2 DEF LookAtDisk
        <4> QED
          BY <4>1, <4>2, <4>3
      <3>3. CASE Compare(m)
        <4> DEFINE no == ~ask[m].listed /\ ask[m].id = seen
        <4>1. \A a \in Ask : \A b \in BOOLEAN : [a EXCEPT !.at = "answered", !.no = b] \in Ask
          BY DEF Ask
        <4>2. ask \in [Askers -> Ask] /\ no \in BOOLEAN
          BY DEF TypeOK, Ask
        <4>3. ask' = [ask EXCEPT ![m] = [ask[m] EXCEPT !.at = "answered", !.no = no]]
          BY <3>3, <4>2 DEF Compare
        <4> HIDE DEF no
        <4> QED
          BY <4>1, <4>2, <4>3
      <3> QED
        BY <1>9, <3>1, <3>2, <3>3
    <2> QED
      BY <1>9, <2>1 DEF AskMaps, LookAtDisk, Compare, TypeOK, Ask
  <1>10. CASE UNCHANGED vars
    BY <1>10 DEF vars, TypeOK
  <1> QED
    BY <1>1, <1>2, <1>3, <1>4, <1>5, <1>6, <1>7, <1>8, <1>9, <1>10 DEF Next

\* Every state has its types.
THEOREM KeptFileTyped == Spec => []TypeOK
  BY TypeInit, TypeStep, PTL DEF Spec

-----------------------------------------------------------------------------
(* The lock, the file and what is read of it *)

LEMMA KeptInit == Init => KeptInv
  <1> SUFFICES ASSUME Init PROVE KeptInv
    OBVIOUS
  <1>1. TypeOK
    BY TypeInit
  <1>2. LatestOK /\ IdsOK
    BY <1>1, KeptFileAssumption DEF Init, TypeOK, LatestOK, Latest, IdsOK, Gone, Bad, Idle
  <1> QED
    BY <1>1, <1>2 DEF Init, KeptInv, Alone, TextOK, StartOK, Idle

LEMMA OneMore ==
  ASSUME NEW v \in Nat, NEW u \in Nat, u = v \/ u = v + 1
  PROVE  0 <= u + 1 /\ \A n \in Nat : n <= v + 1 => n <= u + 1
  OBVIOUS

\* The identities a step of a caller may mark are those it found.
LEMMA IdsStep ==
  ASSUME TypeOK, TypeOK', IdsOK, NEW c \in Callers, UNCHANGED <<writes, disk, aside>>,
         seen' \in {seen, disk.id, call[c].id}, unread' \in {unread, call[c].id},
         call'[c].id \in {0, disk.id, call[c].id}, \A d \in Callers \ {c} : call'[d] = call[d]
  PROVE  IdsOK'
  <1>1. writes \in Nat /\ \A d \in Callers : call[d].id \in Nat
    BY DEF TypeOK
  <1>2. \A d \in Callers : call'[d].id <= writes + 1
    BY <1>1 DEF IdsOK
  <1>3. /\ seen' = Unseen \/ seen' <= writes + 1
        /\ unread' = Unseen \/ unread' <= writes + 1
    BY DEF IdsOK
  <1> QED
    BY <1>2, <1>3 DEF IdsOK

\* What a step of a caller leaves to the others.
LEMMA CallerStep ==
  ASSUME KeptInv, NEW c \in Callers, Stat(c) \/ Read(c) \/ Keep(c)
  PROVE  /\ lock = {c} /\ UNCHANGED <<disk, aside, offered, writes, kind, calls>>
         /\ \A d \in Callers \ {c} : call'[d] = call[d] /\ call[d].at \in {"idle", "waiting"} /\ answer'[d] = answer[d]
         /\ lock' = {c} \/ (lock' = {} /\ call'[c] = Idle)
         /\ call'[c].at \in {"idle", "read", "keep"}
         /\ call'[c].at # "idle" => lock' = {c}
  <1>1. call[c].at \in {"stat", "read", "keep"} /\ lock = {c}
    BY DEF Stat, Read, Keep, KeptInv, Alone
  <1>2. \A d \in Callers \ {c} : call[d].at \in {"idle", "waiting"}
    BY <1>1 DEF KeptInv, Alone, TypeOK
  <1>3. CASE \E n \in Nat : Returns(c, n) \/ Raises(c)
    BY <1>1, <1>2, <1>3 DEF Returns, Raises, Stat, Read, Keep, KeptInv, TypeOK, Idle, files
  <1>4. CASE /\ \E x \in {"read", "keep"} : \E y \in Nat, z \in Nat : call' = [call EXCEPT ![c] = [at |-> x, id |-> y, text |-> z]]
             /\ UNCHANGED <<lock, answer>>
    BY <1>1, <1>2, <1>4 DEF Stat, Read, Keep, KeptInv, TypeOK, files
  <1>5. CASE Stat(c)
    BY <1>5, <1>3, <1>4 DEF Stat, KeptInv, TypeOK, Bad
  <1>6. CASE Keep(c)
    BY <1>6, <1>3 DEF Keep, KeptInv, TypeOK
  <1>7. CASE Read(c)
    <2>1. CASE Fails(c) \/ KeepsLast(c)
      BY <2>1, <1>3 DEF Fails, KeepsLast, KeptInv, TypeOK
    <2>2. CASE Takes(c)
      <3>1. call' = [call EXCEPT ![c] = [at |-> "keep", id |-> call[c].id, text |-> disk.holds]]
        BY <2>2 DEF Takes
      <3> QED
        BY <3>1, <2>2, <1>4 DEF Takes, KeptInv, TypeOK
    <2> QED
      BY <1>7, <2>1, <2>2 DEF Read
  <1> QED
    BY <1>5, <1>6, <1>7

LEMMA KeptStep == KeptInv /\ [Next]_vars => KeptInv'
  <1> SUFFICES ASSUME KeptInv, [Next]_vars PROVE KeptInv'
    OBVIOUS
  <1>0. TypeOK /\ TypeOK'
    BY TypeStep DEF KeptInv
  <1> USE DEF files, served, history
  <1>1. CASE Replace \/ Spoil
    <2>1. LatestOK'
      BY <1>0, <1>1 DEF KeptInv, TypeOK, Replace, Spoil, Written, LatestOK, Latest, Gone, Bad
    <2>2. IdsOK'
      <3>1. writes < MaxWrites /\ writes' = writes + 1 /\ disk'.id = writes + 2 /\ UNCHANGED <<aside, seen, unread, call>>
        BY <1>1 DEF Replace, Spoil, Written
      <3>2. \A c \in Callers : call[c].id \in Nat
        BY <1>0 DEF TypeOK
      <3> QED
        BY <1>0, <3>1, <3>2, KeptFileAssumption DEF KeptInv, TypeOK, IdsOK
    <2>3. offered' \in Nat /\ offered' >= offered /\ UNCHANGED <<lock, call, shown, status, seen>>
      BY <1>0, <1>1 DEF TypeOK, Replace, Spoil, Written
    <2>4. Alone' /\ TextOK' /\ StartOK'
      BY <1>0, <2>3 DEF KeptInv, TypeOK, Alone, TextOK, StartOK
    <2> QED
      BY <1>0, <2>1, <2>2, <2>4 DEF KeptInv
  <1>2. CASE MoveAway \/ MoveBack
    <2>1. LatestOK'
      BY <1>0, <1>2 DEF KeptInv, TypeOK, MoveAway, MoveBack, LatestOK, Latest, Gone, Bad
    <2>2. IdsOK'
      <3>1. /\ writes' \in {writes, writes + 1} /\ writes' <= MaxWrites
            /\ disk'.id \in {0, aside.id} /\ aside'.id \in {0, disk.id} /\ UNCHANGED <<seen, unread, call>>
        BY <1>0, <1>2, KeptFileAssumption DEF KeptInv, TypeOK, IdsOK, MoveAway, MoveBack, Gone
      <3>2. \A c \in Callers : call[c].id \in Nat
        BY <1>0 DEF TypeOK
      <3> QED
        <4>1. \A c \in Callers : call'[c].id <= writes' + 1
          BY <1>0, <3>1, <3>2 DEF KeptInv, TypeOK, IdsOK
        <4> QED
          <5>1. /\ disk.id <= writes' + 1 /\ aside.id <= writes' + 1 /\ 0 <= writes' + 1
                /\ seen = Unseen \/ seen <= writes' + 1
                /\ unread = Unseen \/ unread <= writes' + 1
            <6>1. writes \in Nat /\ disk.id \in Nat /\ aside.id \in Nat /\ seen \in Nat /\ unread \in Nat
              BY <1>0 DEF TypeOK
            <6>2. writes \in Nat /\ writes' \in Nat /\ (writes' = writes \/ writes' = writes + 1)
              BY <3>1, <6>1
            <6>3. /\ disk.id <= writes + 1 /\ aside.id <= writes + 1
                  /\ seen = Unseen \/ seen <= writes + 1
                  /\ unread = Unseen \/ unread <= writes + 1
              BY DEF KeptInv, IdsOK
            <6>4. \A n \in Nat : n <= writes + 1 => n <= writes' + 1
              BY <6>2, OneMore
            <6>5. 0 <= writes' + 1
              BY <6>2, OneMore
            <6>6. seen = Unseen \/ seen <= writes' + 1
              BY <6>1, <6>3, <6>4
            <6>7. unread = Unseen \/ unread <= writes' + 1
              BY <6>1, <6>3, <6>4
            <6>8. disk.id <= writes' + 1 /\ aside.id <= writes' + 1
              BY <6>1, <6>3, <6>4
            <6> QED
              BY <6>5, <6>6, <6>7, <6>8
          <5> QED
            BY <1>0, <3>1, <4>1, <5>1 DEF IdsOK
    <2>3. Alone' /\ TextOK' /\ StartOK'
      BY <1>0, <1>2 DEF KeptInv, TypeOK, MoveAway, MoveBack, Alone, TextOK, StartOK
    <2> QED
      BY <1>0, <2>1, <2>2, <2>3 DEF KeptInv
  <1>3. ASSUME NEW c \in Callers, Begin(c) PROVE KeptInv'
    <2>1. LatestOK'
      BY <1>0, <1>3 DEF KeptInv, Begin, LatestOK, Latest
    <2>2. call'[c] = [at |-> "waiting", id |-> 0, text |-> 0] /\ \A d \in Callers \ {c} : call'[d] = call[d]
      BY <1>0, <1>3 DEF Begin, TypeOK, Idle, Gone, Bad
    <2>3. IdsOK'
      BY <1>0, <1>3, <2>2, SMTT(60) DEF KeptInv, TypeOK, Begin, IdsOK, Unseen
    <2>4. Alone' /\ TextOK'
      BY <1>0, <1>3, <2>2 DEF KeptInv, Begin, Alone, TextOK
    <2>5. StartOK'
      <3>1. status = "starting" => \A d \in Callers : call[d].at = "idle"
        BY <1>3 DEF Begin, Idle
      <3> QED
        BY <1>0, <1>3, <2>2, <3>1 DEF KeptInv, Begin, StartOK
    <2> QED
      BY <1>0, <2>1, <2>3, <2>4, <2>5 DEF KeptInv
  <1>4. ASSUME NEW c \in Callers, Take(c) PROVE KeptInv'
    <2>1. LatestOK'
      BY <1>0, <1>4 DEF KeptInv, Take, LatestOK, Latest
    <2>2. call'[c] = [call[c] EXCEPT !.at = "stat"] /\ \A d \in Callers \ {c} : call'[d] = call[d]
      BY <1>0, <1>4 DEF Take, TypeOK
    <2>3. IdsOK'
      BY <1>0, <1>4, <2>2 DEF KeptInv, TypeOK, Take, IdsOK, Unseen
    <2>4. Alone' /\ TextOK'
      BY <1>0, <1>4, <2>2 DEF KeptInv, TypeOK, Take, Alone, TextOK
    <2>5. StartOK'
      BY <1>0, <1>4, <2>2 DEF KeptInv, TypeOK, Take, StartOK
    <2> QED
      BY <1>0, <2>1, <2>3, <2>4, <2>5 DEF KeptInv
  <1>5. ASSUME NEW c \in Callers, Stat(c) PROVE KeptInv'
    <2>1. LatestOK'
      BY <1>0, <1>5 DEF KeptInv, Stat, LatestOK, Latest
    <2>2. IdsOK'
      <3>1. UNCHANGED <<writes, disk, aside, unread>> /\ seen' \in {seen, disk.id} /\ call'[c].id \in {0, disk.id}
        BY <1>0, <1>5 DEF TypeOK, Stat, Marked, Returns, Raises, Idle, Gone
      <3> QED
        BY <1>0, <1>5, <3>1, CallerStep, IdsStep DEF KeptInv
    <2>3. Alone' /\ TextOK'
      <3>1. call'[c].at # "keep"
        BY <1>0, <1>5 DEF TypeOK, Stat, Returns, Raises, Idle
      <3> QED
        <4>1. UNCHANGED <<shown, offered>>
          BY <1>5 DEF Stat
        <4>2. Alone'
          BY <1>0, <1>5, CallerStep DEF KeptInv, Alone
        <4>3. TextOK'
          BY <1>0, <1>5, <3>1, <4>1, CallerStep DEF KeptInv, TextOK
        <4> QED
          BY <4>2, <4>3
    <2>4. StartOK'
      <3>1. status = "starting" => disk.id # seen
        <4>1. status = "starting" => seen = Unseen
          BY <1>0, <1>5, CallerStep DEF KeptInv, Stat, StartOK
        <4> QED
          BY <1>0, <4>1, KeptFileAssumption DEF KeptInv, IdsOK, TypeOK, Unseen
      <3>0. \A d \in Callers : status = "starting" /\ call[d].at # "idle" => d = c
        BY <1>5 DEF KeptInv, StartOK, Stat
      <3>2. CASE Raises(c) /\ UNCHANGED seen
        BY <1>0, <1>5, <3>0, <3>2, CallerStep DEF KeptInv, TypeOK, Stat, Raises, Idle, StartOK
      <3>3. CASE Returns(c, shown) /\ UNCHANGED seen /\ disk.id = seen
        BY <1>0, <1>5, <3>0, <3>1, <3>3, CallerStep DEF KeptInv, TypeOK, Stat, Returns, Idle, StartOK
      <3>4. CASE call'[c].at = "read" /\ UNCHANGED status
        <4>1. UNCHANGED shown /\ call[c].at = "stat"
          BY <1>5 DEF Stat
        <4> QED
          BY <1>0, <1>5, <3>0, <3>4, <4>1, CallerStep DEF KeptInv, StartOK
      <3> QED
        BY <1>0, <1>5, <3>2, <3>3, <3>4 DEF Stat, TypeOK
    <2> QED
      BY <1>0, <2>1, <2>2, <2>3, <2>4 DEF KeptInv
  <1>6. ASSUME NEW c \in Callers, Read(c) PROVE KeptInv'
    <2>1. LatestOK'
      BY <1>0, <1>6 DEF KeptInv, Read, Fails, KeepsLast, Takes, LatestOK, Latest
    <2>2. IdsOK'
      <3>1. seen' \in {seen, call[c].id} /\ unread' \in {unread, call[c].id} /\ call'[c].id \in {0, call[c].id}
        <4>1. CASE Fails(c) \/ KeepsLast(c)
          BY <1>0, <4>1 DEF TypeOK, Fails, KeepsLast, Returns, Raises, Idle, Gone
        <4>2. CASE Takes(c)
          BY <1>0, <4>2, <1>6 DEF TypeOK, Takes, Read
        <4> QED
          BY <1>6, <4>1, <4>2 DEF Read
      <3> QED
        BY <1>0, <1>6, <3>1, CallerStep, IdsStep DEF KeptInv, Read
    <2>3. Alone'
      BY <1>0, <1>6, CallerStep DEF KeptInv, TypeOK, Alone
    <2>4. TextOK'
      <3>1. CASE Fails(c) \/ KeepsLast(c)
        BY <1>0, <1>6, <3>1, CallerStep DEF KeptInv, TypeOK, Fails, KeepsLast, Returns, Raises, Idle, TextOK
      <3>2. CASE Good /\ Takes(c)
        <4>1. disk.holds > 0 /\ disk.holds = offered /\ shown <= offered /\ UNCHANGED <<shown, offered>>
          BY <1>0, <1>6, <3>2 DEF KeptInv, TypeOK, Read, Takes, Good, LatestOK, Latest, Bad
        <4>2. call'[c].text = disk.holds
          BY <1>0, <3>2 DEF TypeOK, Takes
        <4> QED
          BY <1>0, <1>6, <4>1, <4>2, CallerStep DEF KeptInv, TypeOK, TextOK
      <3> QED
        BY <1>6, <3>1, <3>2 DEF Read
    <2>5. StartOK'
      <3>1. CASE Fails(c) \/ KeepsLast(c)
        <4>1. shown = 0 <=> status = "starting"
          BY <1>0, <1>6 DEF KeptInv, StartOK, TypeOK, Read
        <4> QED
          <5>1. UNCHANGED shown /\ call'[c] = Idle
            BY <1>0, <3>1 DEF TypeOK, Fails, KeepsLast, Returns, Raises
          <5>2. \/ shown = 0 /\ status' = "refused"
                \/ shown > 0 /\ status' = status
            <6>1. CASE shown = 0
              <7>1. Raises(c)
                BY <3>1, <6>1 DEF Fails, KeepsLast
              <7> QED
                BY <4>1, <6>1, <7>1 DEF Raises
            <6>2. CASE shown > 0
              <7>1. Raises(c) \/ Returns(c, shown)
                BY <3>1 DEF Fails, KeepsLast
              <7>2. status # "starting"
                BY <4>1, <6>2
              <7> QED
                BY <6>2, <7>1, <7>2 DEF Raises, Returns
            <6> QED
              BY <1>0, <6>1, <6>2 DEF TypeOK
          <5>3. status = "starting" => \A d \in Callers : call[d].at # "idle" => d = c
            BY <1>6 DEF KeptInv, StartOK, Read
          <5>4. CASE shown = 0 /\ status' = "refused"
            BY <1>6, <4>1, <5>1, <5>3, <5>4, CallerStep DEF Idle, StartOK
          <5>5. CASE shown > 0 /\ status' = status
            <6>1. status = "serving"
              BY <1>0, <1>6, <4>1, <5>5 DEF KeptInv, TypeOK, StartOK, Read
            <6> QED
              BY <5>1, <5>5, <6>1 DEF StartOK
          <5> QED
            BY <5>2, <5>4, <5>5
      <3>2. CASE Good /\ Takes(c)
        <4>1. UNCHANGED <<status, shown>> /\ call'[c].at = "keep" /\ call[c].at = "read"
          BY <1>0, <1>6, <3>2 DEF TypeOK, Takes, Read
        <4> QED
          BY <1>0, <1>6, <4>1, CallerStep DEF KeptInv, StartOK
      <3> QED
        BY <1>6, <3>1, <3>2 DEF Read
    <2> QED
      BY <1>0, <2>1, <2>2, <2>3, <2>4, <2>5 DEF KeptInv
  <1>7. ASSUME NEW c \in Callers, Keep(c) PROVE KeptInv'
    <2>1. LatestOK'
      BY <1>0, <1>7 DEF KeptInv, TypeOK, Keep, LatestOK, Latest, TextOK
    <2>2. IdsOK'
      BY <1>0, <1>7, CallerStep DEF KeptInv, TypeOK, Keep, Returns, Idle, Gone, IdsOK
    <2>3. Alone' /\ TextOK'
      BY <1>0, <1>7, CallerStep DEF KeptInv, TypeOK, Keep, Returns, Idle, Alone, TextOK
    <2>4. StartOK'
      BY <1>0, <1>7, CallerStep DEF KeptInv, TypeOK, Keep, Returns, Idle, StartOK, TextOK
    <2> QED
      BY <1>0, <2>1, <2>2, <2>3, <2>4 DEF KeptInv
  <1>8. ASSUME NEW m \in Askers, AskMaps(m) \/ LookAtDisk(m) \/ Compare(m) PROVE KeptInv'
    BY <1>0, <1>8 DEF KeptInv, AskMaps, LookAtDisk, Compare, LatestOK, Latest, IdsOK, Alone, TextOK, StartOK
  <1>9. CASE UNCHANGED vars
    BY <1>0, <1>9 DEF vars, KeptInv, LatestOK, Latest, IdsOK, Alone, TextOK, StartOK
  <1> QED
    BY <1>1, <1>2, <1>3, <1>4, <1>5, <1>6, <1>7, <1>8, <1>9 DEF Next

LEMMA KeptAlways == Spec => []KeptInv
  BY KeptInit, KeptStep, PTL DEF Spec

-----------------------------------------------------------------------------
(* Refinement *)

\* A step of a caller answers what is shown, or nothing changes for anyone.
LEMMA CallerServes ==
  ASSUME KeptInv, KeptInv', NEW c \in Callers, Stat(c) \/ Read(c) \/ Keep(c)
  PROVE  Promise!Serve(c) \/ UNCHANGED <<offered, shown, answer>>
  <1>0. TypeOK /\ TypeOK'
    BY DEF KeptInv
  <1>1. UNCHANGED offered
    BY CallerStep
  <1>2. CASE UNCHANGED shown /\ Returns(c, shown) /\ shown > 0
    <2>1. shown \in 1 .. offered
      BY <1>0, <1>2 DEF KeptInv, LatestOK, TypeOK
    <2> QED
      BY <1>0, <1>1, <1>2, <2>1 DEF Returns, Promise!Serve, TypeOK
  <1>3. CASE Stat(c)
    <2>1. CASE Returns(c, shown) /\ disk.id = seen
      <3>1. status # "starting"
        <4>1. status = "starting" => seen = Unseen
          BY <1>3, CallerStep DEF KeptInv, StartOK, Stat
        <4> QED
          BY <1>0, <2>1, <4>1, KeptFileAssumption DEF KeptInv, IdsOK, TypeOK, Unseen
      <3>2. shown > 0
        BY <1>0, <1>3, <3>1 DEF KeptInv, StartOK, TypeOK, Stat
      <3> QED
        BY <1>2, <1>3, <2>1, <3>2 DEF Stat
    <2>2. CASE UNCHANGED answer
      BY <1>1, <1>3, <2>2 DEF Stat
    <2> QED
      BY <1>3, <2>1, <2>2 DEF Stat, Raises
  <1>4. CASE Read(c)
    <2>1. CASE Returns(c, shown) /\ shown # 0
      BY <1>0, <1>2, <1>4, <2>1 DEF Read, Fails, KeepsLast, Takes, served, TypeOK
    <2>2. CASE UNCHANGED answer
      BY <1>1, <1>4, <2>2 DEF Read, Fails, KeepsLast, Takes, served
    <2> QED
      BY <1>4, <2>1, <2>2 DEF Read, Fails, KeepsLast, Takes, Raises
  <1>5. CASE Keep(c)
    <2>1. /\ call[c].text \in Nat /\ call[c].text > 0 /\ call[c].text <= offered /\ shown <= call[c].text
          /\ shown' = call[c].text /\ answer' = [answer EXCEPT ![c] = call[c].text]
      BY <1>0, <1>5 DEF KeptInv, TextOK, TypeOK, Keep, Returns
    <2> DEFINE n == call[c].text
    <2> HIDE DEF n
    <2>2. n \in (1 .. offered) \cap {k \in Nat : k >= shown}
      BY <1>0, <2>1 DEF n, TypeOK
    <2> QED
      BY <1>1, <2>1, <2>2 DEF n, Promise!Serve
  <1> QED
    BY <1>3, <1>4, <1>5

LEMMA ServesInit == Init => Promise!Init
  BY DEF Init, Promise!Init, Bad

LEMMA ServesStep == KeptInv /\ KeptInv' /\ [Next]_vars => [Promise!Next]_(Promise!vars)
  <1> SUFFICES ASSUME KeptInv, KeptInv', [Next]_vars PROVE [Promise!Next]_(Promise!vars)
    OBVIOUS
  <1> USE DEF files, served, history
  <1>1. CASE Replace
    BY <1>1 DEF Replace, Written, Promise!Next, Promise!Offer
  <1>2. CASE Spoil \/ MoveAway \/ MoveBack \/ UNCHANGED vars
    BY <1>2 DEF Spoil, Written, MoveAway, MoveBack, vars, Promise!vars
  <1>3. ASSUME NEW c \in Callers, Begin(c) PROVE [Promise!Next]_(Promise!vars)
    BY <1>3 DEF Begin, Promise!Next, Promise!Ask
  <1>4. ASSUME NEW c \in Callers, Take(c) PROVE [Promise!Next]_(Promise!vars)
    BY <1>4 DEF Take, Promise!vars
  <1>5. ASSUME NEW c \in Callers, Stat(c) \/ Read(c) \/ Keep(c) PROVE [Promise!Next]_(Promise!vars)
    BY <1>5, CallerServes DEF Promise!Next, Promise!vars
  <1>6. ASSUME NEW m \in Askers, AskMaps(m) \/ LookAtDisk(m) \/ Compare(m) PROVE [Promise!Next]_(Promise!vars)
    BY <1>6 DEF AskMaps, LookAtDisk, Compare, Promise!vars
  <1> QED
    BY <1>1, <1>2, <1>3, <1>4, <1>5, <1>6 DEF Next

\* The secret and the document, with the lock, the marks and the threads of their callers,
\* implement LastGood.
THEOREM ServesLastGoodHolds == Spec => ServesLastGood
  BY KeptAlways, ServesInit, ServesStep, PTL DEF Spec, ServesLastGood, Promise!Spec

-----------------------------------------------------------------------------
(* Fresh answers *)

\* What is marked as seen and was read is what is shown; a document being read is marked
\* before it is read.
Current ==
  /\ Secret \/ (\A c \in Callers : call[c].at \notin {"read", "keep"}) =>
       (Latest.id # Gone /\ Latest.holds # Bad /\ seen = Latest.id /\ unread # Latest.id => shown = Latest.holds)
  /\ \A c \in Callers : call[c].at \in {"read", "keep"} /\ Document => seen = call[c].id
  /\ \A c \in Callers : call[c].at = "keep" /\ Latest.id # Gone /\ Latest.id = call[c].id => call[c].text = Latest.holds

\* What a call that nothing has disturbed will answer, or has.
FreshOf(c) ==
  /\ since[c].held <= offered
  /\ since[c].steady /\ ~since[c].missed =>
       /\ call[c].at # "idle" => Good /\ unread # disk.id
       /\ call[c].at = "keep" => call[c].text >= since[c].held
       /\ call[c].at = "idle" => answer[c] >= since[c].held

FreshInv == KeptInv /\ Current /\ \A c \in Callers : FreshOf(c)

LEMMA FreshInit == Init => FreshInv
  <1> SUFFICES ASSUME Init PROVE FreshInv
    OBVIOUS
  <1>1. KeptInv
    BY KeptInit
  <1>2. Latest.id = Gone \/ seen # Latest.id
    BY KeptFileAssumption DEF Init, Latest, Unseen, Gone
  <1> QED
    BY <1>1, <1>2 DEF Init, FreshInv, Current, FreshOf, Idle, Gone, Bad
\* Nothing but a write changes the last file, and a write gives it a new identity.
LEMMA LatestStep ==
  ASSUME KeptInv, MoveAway \/ MoveBack
  PROVE  Latest' = Latest
  BY DEF KeptInv, TypeOK, MoveAway, MoveBack, Latest, Gone

LEMMA WrittenIsNew ==
  ASSUME KeptInv, NEW n \in Nat, Written(n)
  PROVE  /\ Latest' = [id |-> writes + 2, holds |-> n] /\ disk' = Latest'
         /\ seen # writes + 2 /\ unread # writes + 2 /\ \A c \in Callers : call[c].id # writes + 2
         /\ writes + 2 # 0
  <1>1. writes \in Nat /\ disk' = [id |-> writes + 2, holds |-> n] /\ writes < MaxWrites
    BY DEF KeptInv, TypeOK, Written
  <1>2. writes + 2 # 0 /\ Latest' = disk'
    BY <1>1 DEF Latest, Gone
  <1>3. seen # writes + 2 /\ unread # writes + 2
    BY <1>1, KeptFileAssumption DEF KeptInv, TypeOK, IdsOK, Unseen
  <1>4. ASSUME NEW c \in Callers PROVE call[c].id # writes + 2
    BY <1>1 DEF KeptInv, TypeOK, IdsOK
  <1> QED
    BY <1>1, <1>2, <1>3, <1>4

\* A caller that a disturbance left alone is as it was.
LEMMA FreshKept ==
  ASSUME FreshInv, NEW d \in Callers, since'[d] = since[d] \/ (~since'[d].steady /\ since'[d].held = since[d].held),
         offered' = offered \/ offered' > offered, offered' \in Nat,
         call'[d] = call[d], answer'[d] = answer[d],
         since'[d].steady /\ Good /\ unread # disk.id => Good' /\ unread' # disk'.id
  PROVE  FreshOf(d)'
  <1>1. since[d].held \in Nat /\ offered \in Nat
    BY DEF FreshInv, KeptInv, TypeOK
  <1>2. since'[d].held <= offered'
    BY <1>1 DEF FreshInv, FreshOf
  <1> QED
    BY <1>2 DEF FreshInv, FreshOf

\* What is on disk and good is the last content that was given.
LEMMA GoodIsLatest ==
  ASSUME KeptInv, Good
  PROVE  Latest = disk /\ disk.holds = offered /\ disk.holds > 0
  BY DEF KeptInv, TypeOK, Good, LatestOK, Latest, Gone, Bad

LEMMA DisturbsLeaves ==
  ASSUME TypeOK, Disturbs
  PROVE  \A d \in Callers : ~since'[d].steady /\ since'[d].held = since[d].held
  BY DEF TypeOK, Disturbs

LEMMA FreshStep == FreshInv /\ [Next]_vars => FreshInv'
  <1> SUFFICES ASSUME FreshInv, [Next]_vars PROVE FreshInv'
    OBVIOUS
  <1>0. KeptInv /\ KeptInv' /\ TypeOK /\ TypeOK'
    BY KeptStep DEF FreshInv, KeptInv
  <1> USE DEF files, served, history
  <1>1. CASE Replace \/ Spoil
    <2>1. PICK n \in Nat : Written(n)
      BY <1>0, <1>1 DEF Replace, Spoil, TypeOK, Bad
    <2>2. UNCHANGED <<kind, seen, shown, call, answer, unread>>
      BY <2>1 DEF Written
    <2>3. Current'
      BY <1>0, <2>1, <2>2, WrittenIsNew DEF FreshInv, Current, Secret, Document
    <2>4. ASSUME NEW d \in Callers PROVE FreshOf(d)'
      <3>1. offered' \in Nat /\ (offered' = offered \/ offered' > offered)
        BY <1>0, <1>1 DEF TypeOK, Replace, Spoil
      <3>2. CASE Spoil
        BY <1>0, <2>2, <3>1, <3>2, DisturbsLeaves, FreshKept DEF Spoil
      <3>3. CASE Replace
        <4>1. disk' = [id |-> writes + 2, holds |-> offered + 1] /\ writes + 2 # 0 /\ unread # writes + 2
          <5>1. Written(offered + 1) /\ offered + 1 \in Nat
            BY <1>0, <3>3 DEF Replace, TypeOK
          <5> QED
            BY <1>0, <5>1, WrittenIsNew DEF Written
        <4>2. Good' /\ unread' # disk'.id
          BY <1>0, <2>2, <4>1 DEF Good, Gone, Bad, TypeOK
        <4>3. since' = since
          BY <3>3 DEF Replace
        <4> QED
          BY <2>2, <3>1, <4>2, <4>3, FreshKept
      <3> QED
        BY <1>1, <3>2, <3>3
    <2> QED
      BY <1>0, <2>3, <2>4 DEF FreshInv
  <1>2. CASE MoveAway \/ MoveBack
    <2>1. UNCHANGED <<kind, seen, shown, call, answer, unread, offered>> /\ Latest' = Latest
      BY <1>0, <1>2, LatestStep DEF MoveAway, MoveBack
    <2>2. Current'
      BY <2>1 DEF FreshInv, Current, Secret, Document
    <2>3. ASSUME NEW d \in Callers PROVE FreshOf(d)'
      <3>1. CASE MoveAway
        BY <1>0, <2>1, <3>1, DisturbsLeaves, FreshKept DEF MoveAway, TypeOK
      <3>2. CASE MoveBack
        <4>1. ~Good /\ since' = since
          BY <3>2 DEF MoveBack, Good
        <4> QED
          BY <1>0, <2>1, <4>1, FreshKept DEF TypeOK
      <3> QED
        BY <1>2, <3>1, <3>2
    <2> QED
      BY <1>0, <2>2, <2>3 DEF FreshInv
  <1>3. ASSUME NEW c \in Callers, Begin(c) PROVE FreshInv'
    <2>1. /\ call'[c] = [at |-> "waiting", id |-> 0, text |-> 0] /\ \A d \in Callers \ {c} : call'[d] = call[d]
          /\ call[c].at = "idle"
          /\ UNCHANGED <<kind, disk, aside, offered, seen, shown, unread>>
      BY <1>0, <1>3 DEF Begin, TypeOK, Idle, Gone, Bad
    <2>2. Current'
      BY <2>1 DEF FreshInv, Current, Secret, Document, Latest
    <2>3. since'[c] = [held |-> disk.holds, steady |-> Good, missed |-> unread = disk.id]
          /\ \A d \in Callers \ {c} : since'[d] = since[d] /\ answer'[d] = answer[d]
      BY <1>0, <1>3 DEF Begin, TypeOK
    <2>4. FreshOf(c)'
      <3>1. disk.holds <= offered
        BY <1>0 DEF KeptInv, TypeOK, LatestOK, Latest, Gone, Bad
      <3>2. /\ since'[c].held <= offered'
            /\ call'[c].at = "waiting"
        BY <2>1, <2>3, <3>1
      <3>4. since'[c].steady => Good
        BY <2>3
      <3>5. ~since'[c].missed => unread # disk.id
        <4>1. since'[c].missed = (unread = disk.id)
          BY <2>3
        <4> QED
          BY <4>1
      <3>3. Good' = Good
        BY <2>1 DEF Good
      <3> QED
        BY <2>1, <3>2, <3>3, <3>4, <3>5 DEF FreshOf
    <2>5. ASSUME NEW d \in Callers \ {c} PROVE FreshOf(d)'
      BY <1>0, <2>1, <2>3, FreshKept DEF TypeOK, Good
    <2> QED
      BY <1>0, <2>2, <2>4, <2>5 DEF FreshInv
  <1>4. ASSUME NEW c \in Callers, Take(c) PROVE FreshInv'
    <2>1. /\ call'[c] = [call[c] EXCEPT !.at = "stat"] /\ \A d \in Callers \ {c} : call'[d] = call[d]
          /\ call[c].at = "waiting"
          /\ UNCHANGED <<kind, disk, aside, offered, seen, shown, unread, answer, since>>
      BY <1>0, <1>4 DEF Take, TypeOK
    <2>2. call'[c].at = "stat" /\ \A d \in Callers : call'[d].at \in {"read", "keep"} => call'[d] = call[d]
      BY <1>0, <2>1 DEF TypeOK
    <2>3. Current'
      BY <2>1, <2>2 DEF FreshInv, Current, Secret, Document, Latest
    <2>4. FreshOf(c)'
      BY <2>1, <2>2 DEF FreshInv, FreshOf, Good
    <2>5. ASSUME NEW d \in Callers \ {c} PROVE FreshOf(d)'
      BY <1>0, <2>1, FreshKept DEF TypeOK, Good
    <2> QED
      BY <1>0, <2>3, <2>4, <2>5 DEF FreshInv
  <1>5. ASSUME NEW c \in Callers, Stat(c) PROVE FreshInv'
    <2>1. /\ \A d \in Callers \ {c} : call'[d] = call[d] /\ call[d].at \in {"idle", "waiting"} /\ answer'[d] = answer[d]
          /\ UNCHANGED <<kind, disk, aside, offered, shown, unread, since, Latest, Good>>
          /\ call[c].at = "stat" /\ \A d \in Callers : call[d].at \notin {"read", "keep"}
      <3>1. \A d \in Callers \ {c} : call'[d] = call[d] /\ call[d].at \in {"idle", "waiting"} /\ answer'[d] = answer[d]
        BY <1>0, <1>5, CallerStep
      <3>2. UNCHANGED <<kind, disk, aside, offered, shown, unread, since>> /\ call[c].at = "stat"
        BY <1>0, <1>5 DEF Stat
      <3>3. \A d \in Callers : call[d].at \notin {"read", "keep"}
        BY <3>1, <3>2
      <3> QED
        BY <3>1, <3>2, <3>3 DEF Latest, Good
    <2>2. ASSUME NEW d \in Callers \ {c} PROVE FreshOf(d)'
      BY <1>0, <2>1, FreshKept DEF TypeOK
    <2>3. CASE Secret /\ disk.id = Gone /\ Raises(c) /\ UNCHANGED seen
      <3>1. call'[c] = Idle /\ ~Good
        BY <1>0, <2>3 DEF TypeOK, Raises, Good
      <3>2. Current'
        BY <2>1, <2>3, <3>1 DEF FreshInv, Current, Secret, Document, Idle
      <3>3. FreshOf(c)'
        BY <2>1, <3>1 DEF FreshInv, FreshOf
      <3> QED
        BY <1>0, <2>2, <3>2, <3>3 DEF FreshInv
    <2>4. CASE disk.id = seen /\ Returns(c, shown) /\ UNCHANGED seen
      <3>1. call'[c] = Idle /\ answer'[c] = shown
        BY <1>0, <2>4 DEF TypeOK, Returns
      <3>2. Current'
        BY <2>1, <2>4, <3>1 DEF FreshInv, Current, Secret, Document, Idle
      <3>3. FreshOf(c)'
        <4>1. Good /\ unread # disk.id => shown = offered
          BY <1>0, <2>1, <2>4, GoodIsLatest DEF FreshInv, Current, Good
        <4>2. Idle.at = "idle"
          BY DEF Idle
        <4> QED
          BY <2>1, <3>1, <4>1, <4>2 DEF FreshInv, FreshOf
      <3> QED
        BY <1>0, <2>2, <3>2, <3>3 DEF FreshInv
    <2>5. CASE /\ disk.id # seen
               /\ seen' = Marked
               /\ call' = [call EXCEPT ![c] = [at |-> "read", id |-> disk.id, text |-> Bad]]
               /\ UNCHANGED <<lock, answer, status>>
      <3>1. call'[c] = [at |-> "read", id |-> disk.id, text |-> Bad]
        BY <1>0, <2>5 DEF TypeOK
      <3>2. Current'
        <4>1. Secret => seen' = seen
          BY <2>5 DEF Marked, Secret, Document
        <4>2. Document => seen' = disk.id
          BY <2>5 DEF Marked
        <4>3. \A d \in Callers : call'[d].at = "keep" => FALSE
          BY <2>1, <3>1
        <4>4. \A d \in Callers : call'[d].at \in {"read", "keep"} => call'[d].id = disk.id
          BY <2>1, <3>1
        <4>5. ~(\A d \in Callers : call'[d].at \notin {"read", "keep"})
          BY <3>1
        <4>6. Secret => (Latest.id # Gone /\ Latest.holds # Bad /\ seen = Latest.id /\ unread # Latest.id => shown = Latest.holds)
          BY DEF FreshInv, Current
        <4>7. UNCHANGED <<Secret, Document, Latest, unread, shown>>
          BY <2>1 DEF Secret, Document
        <4> QED
          BY <4>1, <4>2, <4>3, <4>4, <4>5, <4>6, <4>7 DEF Current
      <3>3. FreshOf(c)'
        BY <2>1, <3>1 DEF FreshInv, FreshOf
      <3> QED
        BY <1>0, <2>2, <3>2, <3>3 DEF FreshInv
    <2> QED
      BY <1>5, <2>3, <2>4, <2>5 DEF Stat
  <1>6. ASSUME NEW c \in Callers, Read(c) PROVE FreshInv'
    <2>1. /\ \A d \in Callers \ {c} : call'[d] = call[d] /\ call[d].at \in {"idle", "waiting"} /\ answer'[d] = answer[d]
          /\ UNCHANGED <<kind, disk, aside, offered, shown>> /\ call[c].at = "read"
      <3>1. UNCHANGED shown
        <4>1. CASE Fails(c) \/ KeepsLast(c)
          BY <4>1 DEF Fails, KeepsLast
        <4>2. CASE Takes(c)
          BY <4>2, <1>6 DEF Takes, Read
        <4> QED
          BY <1>6, <4>1, <4>2 DEF Read
      <3> QED
        BY <1>0, <1>6, <3>1, CallerStep DEF Read
    <2>2. UNCHANGED <<Latest, Good, Secret, Document>>
      BY <2>1 DEF Latest, Good, Secret, Document
    <2>3. \A d \in Callers \ {c} : call[d].at \notin {"read", "keep"}
      BY <2>1
    <2>4. Document => seen = call[c].id
      BY <2>1 DEF FreshInv, Current
    <2>5. CASE Good /\ Takes(c) /\ UNCHANGED <<faults, since, ask>>
      <3>1. call'[c] = [at |-> "keep", id |-> call[c].id, text |-> disk.holds] /\ UNCHANGED <<answer, unread, seen>>
        BY <1>0, <1>6, <2>5 DEF TypeOK, Takes, Read
      <3>2. Latest = disk /\ disk.holds = offered
        BY <1>0, <2>5, GoodIsLatest
      <3>3. Current'
        <4>1. \A d \in Callers : call'[d].at \in {"read", "keep"} => d = c
          BY <2>1, <2>3
        <4> QED
          BY <2>1, <2>2, <2>4, <3>1, <3>2, <4>1 DEF FreshInv, Current
      <3>4. FreshOf(c)'
        BY <1>0, <2>1, <2>2, <2>5, <3>1, <3>2 DEF FreshInv, FreshOf, TypeOK
      <3>5. ASSUME NEW d \in Callers \ {c} PROVE FreshOf(d)'
        BY <1>0, <2>1, <2>2, <2>5, <3>1, FreshKept DEF TypeOK
      <3> QED
        BY <1>0, <3>3, <3>4, <3>5 DEF FreshInv
    <2>6. CASE disk.id # Gone /\ disk.holds = Bad /\ KeepsLast(c) /\ UNCHANGED <<faults, since, ask>>
      <3>1. call'[c] = Idle /\ unread' = unread /\ (seen' = seen \/ seen' = call[c].id) /\ ~Good /\ Latest = disk
        BY <1>0, <2>6 DEF TypeOK, KeepsLast, Returns, Raises, Good, Latest
      <3>2. Current'
        BY <2>1, <2>2, <2>3, <2>6, <3>1 DEF Current, Idle
      <3>3. FreshOf(c)'
        BY <2>1, <2>2, <2>6, <3>1 DEF FreshInv, FreshOf
      <3>4. ASSUME NEW d \in Callers \ {c} PROVE FreshOf(d)'
        BY <1>0, <2>1, <2>2, <2>6, <3>1, FreshKept DEF TypeOK
      <3> QED
        BY <1>0, <3>2, <3>3, <3>4 DEF FreshInv
    <2>7. CASE Fails(c) /\ ((disk.id = Gone /\ UNCHANGED since) \/ Disturbs)
      <3>1. call'[c] = Idle /\ seen' = seen /\ unread' = (IF Document THEN call[c].id ELSE unread)
        BY <1>0, <2>7 DEF TypeOK, Fails, Returns, Raises
      <3>2. Current'
        <4>1. Document => unread' = seen
          BY <2>4, <3>1
        <4>2. Secret => unread' = unread
          BY <3>1 DEF Secret, Document
        <4>3. \A d \in Callers : call'[d].at \notin {"read", "keep"}
          BY <2>1, <2>3, <3>1 DEF Idle
        <4>4. Secret \/ Document
          BY <1>0 DEF TypeOK, Secret, Document
        <4> QED
          BY <2>1, <2>2, <3>1, <4>1, <4>2, <4>3, <4>4 DEF FreshInv, Current
      <3>3. ASSUME NEW d \in Callers PROVE FreshOf(d)'
        <4>1. CASE Disturbs
          <5>1. ~since'[d].steady /\ since'[d].held = since[d].held
            BY <1>0, <4>1, DisturbsLeaves
          <5> QED
            BY <2>1, <5>1 DEF FreshInv, FreshOf
        <4>2. CASE disk.id = Gone /\ UNCHANGED since
          <5>1. ~Good
            BY <4>2 DEF Good
          <5>2. CASE d = c
            BY <2>1, <2>2, <4>2, <5>1, <5>2 DEF FreshInv, FreshOf
          <5>3. CASE d # c
            BY <1>0, <2>1, <2>2, <4>2, <5>1, <5>3, FreshKept DEF TypeOK
          <5> QED
            BY <5>2, <5>3
        <4> QED
          BY <2>7, <4>1, <4>2
      <3> QED
        BY <1>0, <3>2, <3>3 DEF FreshInv
    <2> QED
      BY <1>6, <2>5, <2>6, <2>7 DEF Read
  <1>7. ASSUME NEW c \in Callers, Keep(c) PROVE FreshInv'
    <2>1. /\ \A d \in Callers \ {c} : call'[d] = call[d] /\ call[d].at \in {"idle", "waiting"} /\ answer'[d] = answer[d]
          /\ UNCHANGED <<kind, disk, aside, offered, unread, since>> /\ call[c].at = "keep"
          /\ call'[c] = Idle /\ answer'[c] = call[c].text /\ shown' = call[c].text /\ seen' = call[c].id
      <3>1. call'[c] = Idle /\ answer'[c] = call[c].text
        BY <1>0, <1>7 DEF TypeOK, Keep, Returns
      <3> QED
        BY <1>0, <1>7, <3>1, CallerStep DEF Keep
    <2>2. UNCHANGED <<Latest, Good, Secret, Document>>
      BY <2>1 DEF Latest, Good, Secret, Document
    <2>3. Current'
      <3>1. \A d \in Callers : call'[d].at \notin {"read", "keep"}
        BY <2>1 DEF Idle
      <3> QED
        BY <2>1, <2>2, <3>1 DEF FreshInv, Current
    <2>4. FreshOf(c)'
      BY <2>1, <2>2 DEF FreshInv, FreshOf, Idle
    <2>5. ASSUME NEW d \in Callers \ {c} PROVE FreshOf(d)'
      BY <1>0, <2>1, <2>2, FreshKept DEF TypeOK
    <2> QED
      BY <1>0, <2>3, <2>4, <2>5 DEF FreshInv
  <1>8. CASE UNCHANGED <<kind, files, served, call, answer, history>>
    <2>1. UNCHANGED <<Latest, Good, Secret, Document>>
      BY <1>8 DEF Latest, Good, Secret, Document
    <2>2. Current'
      BY <1>8, <2>1 DEF FreshInv, Current
    <2>3. \A d \in Callers : FreshOf(d)'
      BY <1>8, <2>1 DEF FreshInv, FreshOf
    <2> QED
      BY <1>0, <2>2, <2>3 DEF FreshInv
  <1>9. ASSUME NEW m \in Askers, AskMaps(m) \/ LookAtDisk(m) \/ Compare(m) PROVE FreshInv'
    BY <1>8, <1>9 DEF AskMaps, LookAtDisk, Compare
  <1>10. CASE UNCHANGED vars
    BY <1>8, <1>10 DEF vars
  <1> QED
    BY <1>1, <1>2, <1>3, <1>4, <1>5, <1>6, <1>7, <1>9, <1>10 DEF Next

\* A call the file could be read throughout answers what was on disk when it began, or
\* newer, and raises nothing.
THEOREM FreshAnswerHolds == Spec => []FreshAnswer
  <1>1. FreshInv => FreshAnswer
    BY DEF FreshInv, FreshOf, FreshAnswer, Over
  <1> QED
    BY FreshInit, FreshStep, <1>1, PTL DEF Spec
-----------------------------------------------------------------------------
(* The answers of maps *)

\* What an asker that saw no read under way found, and what it still may find.
AskOf(m) ==
  /\ ask[m].clear /\ ~ask[m].listed =>
       /\ ask[m].at = "looked" => Document /\ Good /\ ~Refreshing /\ disk.id # seen
       /\ ask[m].at = "compare" => Document /\ ~Refreshing /\ ask[m].id # seen
  /\ ask[m].no => ~ask[m].clear

AskInv == FreshInv /\ \A m \in Askers : AskOf(m)

LEMMA AskInit == Init => AskInv
  BY FreshInit DEF Init, AskInv, AskOf, NotAsked

\* An asker that a step has disturbed, or that has nothing to fear from it.
LEMMA AskKept ==
  ASSUME AskInv, NEW m \in Askers,
         \/ ~ask'[m].clear
         \/ /\ ask'[m] = ask[m] /\ UNCHANGED <<kind, seen>> /\ (Refreshing' => Refreshing)
            /\ (Good => Good') /\ (disk'.id = disk.id \/ disk'.id # seen)
         \/ ask'[m] = ask[m] /\ Refreshing
         \/ ask'[m] = ask[m] /\ ask[m].at \notin {"looked", "compare"}
  PROVE  AskOf(m)'
  <1>0. AskOf(m)
    BY DEF AskInv
  <1> HIDE DEF Refreshing, Good
  <1>1. CASE ~ask'[m].clear
    BY <1>1 DEF AskOf
  <1>2. CASE /\ ask'[m] = ask[m] /\ UNCHANGED <<kind, seen>> /\ (Refreshing' => Refreshing)
             /\ (Good => Good') /\ (disk'.id = disk.id \/ disk'.id # seen)
    BY <1>0, <1>2 DEF AskOf, Document
  <1>3. CASE ask'[m] = ask[m] /\ Refreshing
    BY <1>0, <1>3 DEF AskOf
  <1>4. CASE ask'[m] = ask[m] /\ ask[m].at \notin {"looked", "compare"}
    BY <1>0, <1>4 DEF AskOf
  <1> QED
    BY <1>1, <1>2, <1>3, <1>4

LEMMA AskStep == AskInv /\ [Next]_vars => AskInv'
  <1> SUFFICES ASSUME AskInv, [Next]_vars PROVE AskInv'
    OBVIOUS
  <1>0. FreshInv' /\ KeptInv /\ TypeOK
    BY FreshStep DEF AskInv, FreshInv, KeptInv
  <1>a. SUFFICES ASSUME NEW m \in Askers PROVE AskOf(m)'
    BY <1>0 DEF AskInv
  <1> USE DEF files, served, history
  <1>1. CASE Replace
    <2>1. Written(offered + 1) /\ offered + 1 \in Nat /\ UNCHANGED ask
      BY <1>0, <1>1 DEF Replace, TypeOK
    <2>2. disk'.id # seen /\ Good' /\ UNCHANGED <<kind, seen, Refreshing>>
      <3>1. disk' = [id |-> writes + 2, holds |-> offered + 1] /\ seen # writes + 2 /\ writes + 2 # 0
        BY <1>0, <2>1, WrittenIsNew
      <3> QED
        BY <1>0, <2>1, <3>1 DEF Written, Refreshing, Good, TypeOK, Gone, Bad
    <2> QED
      BY <2>1, <2>2, AskKept
  <1>2. CASE Spoil \/ MoveAway
    BY <1>0, <1>2, AskKept DEF Spoil, MoveAway, Disturbs, TypeOK
  <1>3. CASE MoveBack
    <2>1. disk.id = Gone /\ ~Good /\ ask' = ask
      BY <1>3 DEF MoveBack, Good
    <2>2. UNCHANGED <<kind, seen, Refreshing>>
      BY <1>3 DEF MoveBack, Refreshing
    <2> QED
      BY <2>1, <2>2 DEF AskInv, AskOf, Document
  <1>4. ASSUME NEW c \in Callers, Begin(c) \/ Take(c) PROVE AskOf(m)'
    <2>1. UNCHANGED <<kind, seen, disk, Good, ask>>
      BY <1>4 DEF Begin, Take, Good
    <2>2. Refreshing' => Refreshing
      <3>1. \A d \in Callers : call'[d].at \in {"read", "keep"} => call'[d] = call[d]
        BY <1>0, <1>4 DEF Begin, Take, TypeOK, Idle
      <3> QED
        BY <3>1 DEF Refreshing
    <2> QED
      BY <2>1, <2>2, AskKept
  <1>5. ASSUME NEW c \in Callers, Stat(c) PROVE AskOf(m)'
    <2>1. CASE call'[c].at = "read"
      BY <1>0, <1>5, <2>1, AskKept DEF Stat, TypeOK
    <2>2. CASE call'[c].at # "read"
      <3>1. ask' = [n \in Askers |-> [ask[n] EXCEPT !.clear = @ /\ TRUE]]
        BY <1>5, <2>2 DEF Stat
      <3>2. \A a \in Ask : [a EXCEPT !.clear = @ /\ TRUE] = a
        BY DEF Ask
      <3>3. ask'[m] = ask[m]
        BY <1>0, <3>1, <3>2 DEF TypeOK, Ask
      <3>4. call'[c] = Idle /\ UNCHANGED seen
        BY <1>0, <1>5, <2>2 DEF TypeOK, Stat, Raises, Returns
      <3>5. Refreshing' => Refreshing
        BY <1>0, <1>5, <3>4, CallerStep DEF Refreshing, Idle
      <3>6. UNCHANGED <<kind, disk, Good>>
        BY <1>5 DEF Stat, Good
      <3> QED
        BY <3>3, <3>4, <3>5, <3>6, AskKept
    <2> QED
      BY <2>1, <2>2
  <1>6. ASSUME NEW c \in Callers, Read(c) \/ Keep(c) PROVE AskOf(m)'
    <2>1. Refreshing
      BY <1>6 DEF Read, Keep, Refreshing
    <2>2. ask' = ask \/ Disturbs
      BY <1>6 DEF Read, Keep
    <2>3. CASE Disturbs
      BY <1>0, <2>3, AskKept DEF Disturbs, TypeOK
    <2> QED
      BY <2>1, <2>2, <2>3, AskKept
  <1>7. ASSUME NEW n \in Askers, AskMaps(n) \/ LookAtDisk(n) \/ Compare(n) PROVE AskOf(m)'
    <2>1. UNCHANGED <<kind, seen, disk, Good, Refreshing>>
      BY <1>7 DEF AskMaps, LookAtDisk, Compare, Good, Refreshing
    <2>2. CASE m # n
      BY <1>0, <1>7, <2>1, <2>2, AskKept DEF AskMaps, LookAtDisk, Compare, TypeOK
    <2>3. CASE m = n /\ AskMaps(n)
      <3>1. ask'[m] = [at |-> "looked", for |-> disk.holds, listed |-> shown >= disk.holds, id |-> Gone, no |-> FALSE,
                       clear |-> ~Refreshing]
        BY <1>0, <2>3 DEF AskMaps, TypeOK
      <3>2. Document /\ Good /\ unread # disk.id
        BY <2>3 DEF AskMaps
      <3>3. ~Refreshing /\ ~(shown >= disk.holds) => disk.id # seen
        <4>1. Latest = disk /\ disk.holds > 0 /\ disk.holds \in Nat
          BY <1>0, <3>2, GoodIsLatest DEF TypeOK
        <4>2. ~Refreshing /\ disk.id = seen => shown = disk.holds
          BY <3>2, <4>1 DEF AskInv, FreshInv, Current, Refreshing, Good
        <4> QED
          BY <4>1, <4>2
      <3>4. ask'[m].listed = (shown >= disk.holds) /\ ask'[m].clear = ~Refreshing /\ ask'[m].at = "looked" /\ ask'[m].no = FALSE
        BY <3>1
      <3> HIDE DEF Refreshing
      <3> QED
        BY <2>1, <3>2, <3>3, <3>4 DEF AskOf, Document
    <2>4. CASE m = n /\ LookAtDisk(n)
      <3>1. /\ ask'[m].at = "compare" /\ ask'[m].id = disk.id /\ ask'[m].clear = ask[m].clear
            /\ ask'[m].listed = ask[m].listed /\ ask'[m].no = ask[m].no /\ ask[m].at = "looked"
        BY <1>0, <2>4 DEF LookAtDisk, TypeOK
      <3> QED
        BY <2>1, <3>1 DEF AskInv, AskOf, Document
    <2>5. CASE m = n /\ Compare(n)
      <3>1. /\ ask'[m].at = "answered" /\ ask'[m].no = (~ask[m].listed /\ ask[m].id = seen) /\ ask'[m].clear = ask[m].clear
            /\ ask'[m].listed = ask[m].listed /\ ask[m].at = "compare"
        BY <1>0, <2>5 DEF Compare, TypeOK
      <3> QED
        BY <2>1, <3>1 DEF AskInv, AskOf, Document
    <2> QED
      BY <1>7, <2>2, <2>3, <2>4, <2>5
  <1>8. ASSUME UNCHANGED vars PROVE AskOf(m)'
    BY <1>8 DEF vars, AskInv, AskOf, Good, Refreshing, Document
  <1> QED
    BY <1>1, <1>2, <1>3, <1>4, <1>5, <1>6, <1>7, <1>8 DEF Next

\* maps says no to a catalog the file lists only while the file is read again.
THEOREM NoOnlyWhileReadHolds == Spec => []NoOnlyWhileRead
  <1>1. AskInv => NoOnlyWhileRead
    BY DEF AskInv, AskOf, NoOnlyWhileRead
  <1> QED
    BY AskInit, AskStep, <1>1, PTL DEF Spec

-----------------------------------------------------------------------------
(* The reads of Atlas, which takes its secret from such a file and asks of *)
(* it only what LastGood promises.  AtlasInv is inductive: what is under   *)
(* way of a call bounds how often it can still be refused (Counted), and   *)
(* what a read finds absent is dated by the signal and the secret it began *)
(* under (Dated, Forgotten), so that it hides no type that was there then. *)

Failures == {"refused", "unavailable", "error"}
AtlasRead ==
  [at : {"idle", "ok", "cut"} \cup Going \cup Failures, learnt : Nat \X Nat, types : SUBSET DOMAIN Types,
   left : SUBSET Tables, batch : SUBSET Tables, found : SUBSET Tables, closed : SUBSET Tables,
   failed : SUBSET Failures, refused : Nat, passed : BOOLEAN, since : SUBSET Kinds]
AtlasRequest ==
  [at : {"idle", "queued", "sent", "answered", "over"}, says : {"nothing", "refused", "unknown", "yes"},
   index : Nat, addr : Nat, step : Nat, hops : Nat]

AtlasTyped ==
  /\ first \in Nat /\ generation \in Nat /\ written \in Nat \ {0}
  /\ absent \in [Kinds -> Nat \X Nat]
  /\ exists \subseteq Kinds /\ settled \subseteq Kinds
  /\ read \in [Reads -> AtlasRead]
  /\ request \in [Reads -> [Requests -> AtlasRequest]]

Flying(q) == {p \in Requests : q[p].at \in {"sent", "answered"}}

\* A refusal is the end of a read, unless it has several requests under way: then each of
\* them may be refused once, and none is sent after.
Counted(d, q) ==
  /\ d.at = "idle" => q = Silence
  /\ d.failed = {} /\ d.at \in Going => d.refused = 0
  /\ d.at \in {"idle", "tables", "first"} => d.failed = {}
  /\ d.at = "rest" =>
       /\ d.passed /\ q[Bulk].at = "over"
       /\ d.refused > 0 => "refused" \in d.failed
       /\ d.refused + Cardinality(Flying(q)) <= MaxConcurrent
  /\ d.at \notin Going =>
       /\ Flying(q) = {} /\ (d.refused > 0 => d.at = "refused")
       /\ d.at = "error" => d.failed \subseteq {"error"}
       /\ d.refused > 1 => d.passed /\ d.refused <= MaxConcurrent

\* What a read under way learns is dated by the signal and the secret it began under: what
\* it finds absent was not there then.
Dated(d, q) ==
  d.at = "tables" =>
    /\ d.since \subseteq exists
    /\ d.learnt[1] <= generation /\ d.learnt[2] <= written
    /\ d.learnt = Now => d.since = settled
    /\ q[Bulk].at = "answered" /\ q[Bulk].says = "unknown" => Types[Min(d.types)] \notin d.since

\* A table is found, closed, or yet to be asked for under its type.
Asked(d, names) ==
  \A x \in Tables : Holder[x] \in d.since =>
    \/ x \in d.found \cup d.closed
    \/ \E i \in d.types : Types[i] = Holder[x] /\ (i = Min(d.types) => x \in names)

Covered(d) ==
  /\ d.at = "tables" => Asked(d, d.left \cup d.batch)
  /\ d.at = "ok" /\ ~d.passed => \A x \in Tables : Holder[x] \in d.since => x \in d.found \cup d.closed

\* No type is recorded as absent under the signal and the secret of now that was there
\* when they came.
Forgotten ==
  /\ settled \subseteq exists
  /\ \A t \in Kinds :
       /\ absent[t][2] = 0 \/ (absent[t][1] <= generation /\ absent[t][2] <= written)
       /\ absent[t] = Now => t \notin settled

ReadFit(d, q) == Counted(d, q) /\ Dated(d, q) /\ Covered(d)
AtlasInv == AtlasTyped /\ Forgotten /\ \A r \in Reads : ReadFit(read[r], request[r])

Steady == UNCHANGED <<generation, written, exists, settled>>

\* What a step leaves of the others is as it was.
LEMMA OneRead ==
  ASSUME AtlasInv, Steady, Forgotten', first' \in Nat, absent' \in [Kinds -> Nat \X Nat],
         NEW r \in Reads, NEW d \in AtlasRead, NEW q \in [Requests -> AtlasRequest], ReadFit(d, q),
         read' = [read EXCEPT ![r] = d], request' = [request EXCEPT ![r] = q]
  PROVE  AtlasInv'
<1>1. AtlasTyped'
  BY DEF AtlasInv, AtlasTyped, Steady
<1>2. ASSUME NEW s \in Reads PROVE ReadFit(read'[s], request'[s])
  <2>1. CASE s = r
    BY <2>1 DEF AtlasInv, AtlasTyped
  <2>2. CASE s # r
    BY <2>2 DEF AtlasInv, AtlasTyped
  <2>3. QED
    BY <2>1, <2>2
<1>3. ASSUME NEW s \in Reads PROVE ReadFit(read[s], request[s])'
  <2>1. Counted(read'[s], request'[s]) /\ Dated(read'[s], request'[s]) /\ Covered(read'[s])
    BY <1>2 DEF ReadFit
  <2>2. Counted(read[s], request[s])'
    BY <2>1 DEF Counted
  <2>3. Dated(read[s], request[s])'
    BY <2>1 DEF Dated, Steady, Now
  <2>4. Covered(read[s])'
    BY <2>1 DEF Covered, Asked
  <2>5. QED
    BY <2>2, <2>3, <2>4 DEF ReadFit
<1>4. QED
  BY <1>1, <1>3 DEF AtlasInv

LEMMA FlyingFinite ==
  ASSUME NEW q
  PROVE  IsFiniteSet(Flying(q)) /\ Cardinality(Flying(q)) \in Nat
<1>1. Keys \in Int /\ 0 \in Int
  BY AtlasAssumption
<1>2. IsFiniteSet(Requests)
  BY <1>1, FS_Interval DEF Requests
<1>3. QED
  BY <1>2, FS_Subset, FS_CardinalityType DEF Flying

LEMMA SilenceFlies == Flying(Silence) = {} /\ Silence \in [Requests -> AtlasRequest] /\ Bulk \in Requests
  BY AtlasAssumption DEF Flying, Silence, NoRequest, AtlasRequest, Requests, Bulk

\* A request that is under way is of a read that is.
LEMMA Underway ==
  ASSUME AtlasInv, NEW r \in Reads, NEW p \in Requests, request[r][p].at \in {"sent", "answered"}
  PROVE  /\ read[r].at \in Going /\ p \in Flying(request[r])
         /\ read[r].at = "rest" => p # Bulk
<1>1. Counted(read[r], request[r]) /\ p \in Flying(request[r])
  BY DEF AtlasInv, ReadFit, Flying
<1>2. request[r] # Silence
  BY DEF Silence, NoRequest
<1>3. QED
  BY <1>1, <1>2 DEF Counted

\* The request goes out again, to another address.
LEMMA SentAgain ==
  ASSUME AtlasInv, NEW r \in Reads, NEW p \in Requests, request[r][p].at = "sent",
         NEW a \in AtlasRequest, a.at = "sent"
  PROVE  ReadFit(read[r], [request[r] EXCEPT ![p] = a])
<1> DEFINE q == [request[r] EXCEPT ![p] = a]
<1>1. request[r] \in [Requests -> AtlasRequest] /\ ReadFit(read[r], request[r])
  BY DEF AtlasInv, AtlasTyped
<1>2. Flying(q) = Flying(request[r])
  BY <1>1 DEF Flying
<1>3. read[r].at \in Going /\ (read[r].at = "rest" => p # Bulk)
  BY Underway
<1>4. q[Bulk].at = "answered" => q[Bulk] = request[r][Bulk]
  BY <1>1, SilenceFlies
<1>5. p # Bulk => q[Bulk] = request[r][Bulk]
  BY <1>1, SilenceFlies
<1>6. Counted(read[r], q)
  BY <1>1, <1>2, <1>3, <1>5 DEF ReadFit, Counted, Going
<1>7. Dated(read[r], q)
  BY <1>1, <1>4 DEF ReadFit, Dated
<1>8. QED
  BY <1>1, <1>6, <1>7 DEF ReadFit

\* A request that fails.
LEMMA Raised ==
  ASSUME AtlasInv, Steady, UNCHANGED absent, first' \in Nat, NEW r \in Reads, NEW p \in Requests,
         request[r][p].at \in {"sent", "answered"}, NEW how \in Failures, Raise(r, p, how)
  PROVE  AtlasInv'
<1> DEFINE once == IF how = "refused" THEN 1 ELSE 0
<1>1. /\ request[r] \in [Requests -> AtlasRequest] /\ read[r] \in AtlasRead /\ ReadFit(read[r], request[r])
      /\ request[r][p] \in AtlasRequest
  BY DEF AtlasInv, AtlasTyped
<1>2. Forgotten' /\ absent' \in [Kinds -> Nat \X Nat]
  BY DEF AtlasInv, AtlasTyped, Forgotten, Steady, Now
<1>3. CASE read[r].at = "rest"
  <2> DEFINE q == [request[r] EXCEPT ![p].at = "over"]
             d == [read[r] EXCEPT !.failed = @ \cup {how}, !.refused = @ + once]
  <2>1. read' = [read EXCEPT ![r] = d] /\ request' = [request EXCEPT ![r] = q]
    BY <1>3 DEF Raise, AtlasInv, AtlasTyped
  <2>2. d \in AtlasRead /\ q \in [Requests -> AtlasRequest]
    <3>1. read[r].failed \cup {how} \in SUBSET Failures /\ read[r].refused + once \in Nat
      BY <1>1 DEF AtlasRead
    <3>2. d \in AtlasRead
      <4> HIDE DEF once
      <4>1. QED
        BY <1>1, <3>1 DEF AtlasRead
    <3>3. [request[r][p] EXCEPT !.at = "over"] \in AtlasRequest
      BY <1>1 DEF AtlasRequest
    <3>4. QED
      BY <1>1, <3>2, <3>3
  <2>3. Flying(q) = Flying(request[r]) \ {p} /\ p \in Flying(request[r])
    BY <1>1 DEF Flying, AtlasRequest
  <2>4. Cardinality(Flying(q)) = Cardinality(Flying(request[r])) - 1
    BY <2>3, FlyingFinite, FS_RemoveElement
  <2>5. q[Bulk] = request[r][Bulk]
    BY <1>1, <1>3, Underway, SilenceFlies
  <2>6. /\ d.at = "rest" /\ d.passed = read[r].passed /\ d.failed = read[r].failed \cup {how}
        /\ d.refused = read[r].refused + once /\ read[r].refused \in Nat
    BY <1>1, <1>3 DEF AtlasRead
  <2>7. d.refused + Cardinality(Flying(q)) <= MaxConcurrent
    <3>1. read[r].refused + Cardinality(Flying(request[r])) <= MaxConcurrent
      BY <1>1, <1>3 DEF ReadFit, Counted
    <3> HIDE DEF d, q
    <3>2. QED
      BY <2>4, <2>6, <3>1, FlyingFinite, AtlasAssumption
  <2>8. Counted(d, q)
    <3> HIDE DEF d, q
    <3>1. d.failed # {}
      BY <2>6
    <3>2. d.refused > 0 => "refused" \in d.failed
      BY <1>1, <1>3, <2>6 DEF ReadFit, Counted
    <3>3. QED
      BY <1>1, <1>3, <2>5, <2>6, <2>7, <3>1, <3>2 DEF ReadFit, Counted, Going
  <2>9. Dated(d, q) /\ Covered(d)
    <3> HIDE DEF d, q
    <3>1. QED
      BY <2>6 DEF Dated, Covered
  <2>10. QED
    <3> HIDE DEF d, q
    <3>1. QED
      BY <1>2, <2>1, <2>2, <2>8, <2>9, OneRead DEF ReadFit
<1>4. CASE read[r].at # "rest"
  <2> DEFINE d == [read[r] EXCEPT !.at = how, !.refused = @ + once]
  <2>1. read' = [read EXCEPT ![r] = d] /\ request' = [request EXCEPT ![r] = Silence]
    BY <1>4 DEF Raise, AtlasInv, AtlasTyped
  <2>2. d \in AtlasRead
    <3>1. read[r].refused + once \in Nat
      BY <1>1 DEF AtlasRead
    <3> HIDE DEF once
    <3>2. QED
      BY <1>1, <3>1 DEF AtlasRead
  <2>3. d.at = how /\ d.refused = read[r].refused + once /\ d.failed = read[r].failed
    BY <1>1 DEF AtlasRead
  <2>4. read[r].refused = 0 /\ read[r].failed = {}
    BY <1>1, <1>4, Underway DEF ReadFit, Counted, Going
  <2>5. how \notin Going /\ how \notin {"idle", "tables", "ok"}
    BY DEF Failures, Going
  <2>6. Counted(d, Silence) /\ Dated(d, Silence) /\ Covered(d)
    <3> HIDE DEF d
    <3>1. QED
      BY <2>3, <2>4, <2>5, SilenceFlies DEF Counted, Dated, Covered, Going, Failures
  <2>7. QED
    <3> HIDE DEF d
    <3>1. QED
      BY <1>2, <2>1, <2>2, <2>6, SilenceFlies, OneRead DEF ReadFit
<1>5. QED
  BY <1>3, <1>4

LEMMA FileKept ==
  ASSUME NEW r, NEW q
  PROVE  FileSecret!Serve(<<r, q>>) \/ UNCHANGED file => UNCHANGED written
  BY DEF FileSecret!Serve, file

LEMMA Untouched ==
  ASSUME AtlasInv, UNCHANGED <<generation, written, exists, settled, absent>>
  PROVE  Steady /\ Forgotten' /\ absent' \in [Kinds -> Nat \X Nat]
  BY DEF AtlasInv, AtlasTyped, Forgotten, Steady, Now

LEMMA Addressed ==
  ASSUME NEW a \in AtlasRequest, NEW n \in Nat
  PROVE  LET next == [a EXCEPT !.index = n, !.addr = n, !.step = @ + 1, !.hops = 0]
         IN  next \in AtlasRequest /\ next.at = a.at
<1>1. [a EXCEPT !.index = n, !.addr = n, !.hops = 0] \in AtlasRequest
  BY DEF AtlasRequest
<1>2. a.step + 1 \in Nat
  BY DEF AtlasRequest
<1>3. QED
  BY <1>1, <1>2 DEF AtlasRequest

LEMMA Redirected ==
  ASSUME NEW a \in AtlasRequest, NEW n \in Nat
  PROVE  LET next == [a EXCEPT !.addr = n, !.hops = @ + 1]
         IN  next \in AtlasRequest /\ next.at = a.at
<1>1. a.hops + 1 \in Nat
  BY DEF AtlasRequest
<1>2. QED
  BY <1>1 DEF AtlasRequest

\* The other address, if there is one.
LEMMA NextAddressKeeps ==
  ASSUME AtlasInv, UNCHANGED <<absent, generation, exists, settled>>, first' \in Nat, NEW r \in Reads, NEW p \in Requests,
         request[r][p].at = "sent", NextAddress(r, p)
  PROVE  AtlasInv'
<1> DEFINE a == request[r][p]
           next == (a.index + 1) % Addresses
           sent == [a EXCEPT !.index = next, !.addr = next, !.step = @ + 1, !.hops = 0]
<1>1. a \in AtlasRequest /\ request[r] \in [Requests -> AtlasRequest] /\ read[r] \in AtlasRead
  BY DEF AtlasInv, AtlasTyped
<1>2. CASE a.step + 1 < Addresses
  <2>1. Sends(r, p, sent) /\ UNCHANGED read
    BY <1>2 DEF NextAddress
  <2>2. next \in Nat
    BY <1>1, AtlasAssumption DEF AtlasRequest
  <2>3. sent \in AtlasRequest /\ sent.at = "sent"
    <3>1. a.at = "sent"
      OBVIOUS
    <3> HIDE DEF next, a
    <3>2. QED
      BY <1>1, <2>2, <3>1, Addressed
  <2> HIDE DEF sent, next
  <2>4. ReadFit(read[r], [request[r] EXCEPT ![p] = sent]) /\ [request[r] EXCEPT ![p] = sent] \in [Requests -> AtlasRequest]
    BY <1>1, <2>3, SentAgain
  <2>5. request' = [request EXCEPT ![r] = [request[r] EXCEPT ![p] = sent]] /\ read' = [read EXCEPT ![r] = read[r]]
    BY <2>1 DEF Sends, AtlasInv, AtlasTyped
  <2>6. UNCHANGED written
    BY <2>1, FileKept DEF Sends
  <2>7. QED
    BY <1>1, <2>4, <2>5, <2>6, Untouched, OneRead
<1>3. CASE ~(a.step + 1 < Addresses)
  <2>1. Raise(r, p, "unavailable") /\ "unavailable" \in Failures
    BY <1>3 DEF NextAddress, Failures
  <2>2. UNCHANGED written
    BY <2>1 DEF Raise, file
  <2>3. QED
    BY <2>1, <2>2, Untouched, Raised
<1>4. QED
  BY <1>2, <1>3

LEMMA RedirectKeeps ==
  ASSUME AtlasInv, NEW r \in Reads, NEW p \in Requests, Redirect(r, p)
  PROVE  AtlasInv'
<1>1. /\ request[r][p].at = "sent" /\ UNCHANGED <<absent, generation, exists, settled>> /\ first' \in Nat
      /\ request[r][p] \in AtlasRequest /\ request[r] \in [Requests -> AtlasRequest] /\ read[r] \in AtlasRead
  BY DEF Redirect, Sent, AtlasInv, AtlasTyped
<1>2. CASE request[r][p].hops < MaxHops
  <2>1. PICK to \in Names : Sends(r, p, [request[r][p] EXCEPT !.addr = to, !.hops = @ + 1]) /\ UNCHANGED read
    BY <1>2 DEF Redirect
  <2> DEFINE sent == [request[r][p] EXCEPT !.addr = to, !.hops = @ + 1]
  <2>2. sent \in AtlasRequest /\ sent.at = "sent"
    <3>1. to \in Nat
      BY AtlasAssumption DEF Names
    <3> HIDE DEF sent
    <3>2. sent \in AtlasRequest /\ sent.at = request[r][p].at
      BY <1>1, <3>1, Redirected DEF sent
    <3>3. QED
      BY <1>1, <3>2
  <2>3. Sends(r, p, sent) /\ UNCHANGED read
    BY <2>1
  <2> HIDE DEF sent
  <2>4. ReadFit(read[r], [request[r] EXCEPT ![p] = sent]) /\ [request[r] EXCEPT ![p] = sent] \in [Requests -> AtlasRequest]
    BY <1>1, <2>2, SentAgain
  <2>5. request' = [request EXCEPT ![r] = [request[r] EXCEPT ![p] = sent]] /\ read' = [read EXCEPT ![r] = read[r]]
    BY <2>3 DEF Sends, AtlasInv, AtlasTyped
  <2>6. UNCHANGED written
    BY <2>3, FileKept DEF Sends
  <2>7. QED
    BY <1>1, <2>4, <2>5, <2>6, Untouched, OneRead
<1>3. CASE ~(request[r][p].hops < MaxHops)
  BY <1>1, <1>3, NextAddressKeeps DEF Redirect
<1>4. QED
  BY <1>2, <1>3

\* A request that meets a trouble, or an answer that is an error.
LEMMA TroubleKeeps ==
  ASSUME AtlasInv, NEW r \in Reads, NEW p \in Requests,
         Silent(r, p) \/ Outage(r, p) \/ Outside(r, p) \/ Broken(r, p) \/ Refuse(r, p) \/ Garbled(r, p)
  PROVE  AtlasInv'
<1>1. request[r][p] \in AtlasRequest /\ first \in Nat
  BY DEF AtlasInv, AtlasTyped
<1>2. first' \in Nat
  <2>1. (request[r][p].index + 1) % Addresses \in Nat /\ request[r][p].addr \in Nat
    BY <1>1, AtlasAssumption DEF AtlasRequest
  <2>2. QED
    BY <1>1, <2>1 DEF Silent, Outage, Outside, Broken, Refuse, Garbled, Says
<1>3. UNCHANGED <<absent, generation, exists, settled>>
  BY DEF Silent, Outage, Outside, Broken, Refuse, Garbled, server
<1>4. CASE Silent(r, p) \/ Outage(r, p)
  BY <1>2, <1>3, <1>4, NextAddressKeeps DEF Silent, Outage, Sent
<1>5. CASE Outside(r, p) \/ Broken(r, p) \/ Refuse(r, p) \/ Garbled(r, p)
  <2>1. /\ request[r][p].at \in {"sent", "answered"}
        /\ \E how \in Failures : Raise(r, p, how)
    BY <1>5 DEF Outside, Broken, Refuse, Garbled, Sent, Says, AfterRefusal, Failures
  <2>2. UNCHANGED written
    BY <2>1 DEF Raise, file
  <2>3. QED
    BY <1>2, <1>3, <2>1, <2>2, Untouched, Raised
<1>6. QED
  BY <1>4, <1>5

-----------------------------------------------------------------------------
(* The reads of terms *)

LEMMA TermsKeeps ==
  ASSUME AtlasInv, NEW r \in Reads, Terms(r)
  PROVE  AtlasInv'
<1> DEFINE d == [read[r] EXCEPT !.at = "first"]
           a == [NoRequest EXCEPT !.at = "sent", !.index = first', !.addr = first']
           q == [request[r] EXCEPT ![1] = a]
<1>1. /\ read[r].at = "idle" /\ UNCHANGED <<first, generation, absent, exists, settled>> /\ first' \in Nat
      /\ request[r] \in [Requests -> AtlasRequest] /\ read[r] \in AtlasRead /\ ReadFit(read[r], request[r])
  BY DEF Terms, server, AtlasInv, AtlasTyped
<1>2. read' = [read EXCEPT ![r] = d] /\ request' = [request EXCEPT ![r] = q] /\ UNCHANGED written
  BY FileKept DEF Terms, Starts, Sends, AtlasInv, AtlasTyped
<1>3. d \in AtlasRead /\ d.at = "first" /\ d.refused = read[r].refused /\ d.refused \in Nat
  BY <1>1 DEF AtlasRead, Going
<1>4. a \in AtlasRequest
  BY <1>1 DEF AtlasRequest, NoRequest
<1>5. q \in [Requests -> AtlasRequest]
  <2> HIDE DEF a
  <2>1. QED
    BY <1>1, <1>4
<1>6. ReadFit(d, q)
  <2> HIDE DEF d, q
  <2>1. Counted(d, q)
    <3>1. d.failed = read[r].failed
      BY <1>1 DEF d, AtlasRead
    <3>2. QED
      BY <1>1, <1>3, <3>1 DEF ReadFit, Counted, Going
  <2>2. QED
    BY <1>3, <2>1 DEF ReadFit, Dated, Covered
<1>7. QED
  <2> HIDE DEF d, q
  <2>1. QED
    BY <1>1, <1>2, <1>3, <1>5, <1>6, Untouched, OneRead

LEMMA FirstTermKeeps ==
  ASSUME AtlasInv, NEW r \in Reads, FirstTerm(r)
  PROVE  AtlasInv'
<1> DEFINE d == [read[r] EXCEPT !.at = IF Keys = 1 THEN "ok" ELSE "rest", !.passed = TRUE]
           q == [p \in Requests |-> [NoRequest EXCEPT !.at = IF p > 1 THEN "queued" ELSE "over"]]
<1>1. /\ read[r].at = "first" /\ UNCHANGED <<generation, written, absent, exists, settled>> /\ first' \in Nat
      /\ read[r] \in AtlasRead /\ ReadFit(read[r], request[r])
  <2>1. request[r][1] \in AtlasRequest
    BY AtlasAssumption DEF AtlasInv, AtlasTyped, Requests
  <2>2. QED
    BY <2>1 DEF FirstTerm, Says, file, server, AtlasInv, AtlasTyped, AtlasRequest
<1>2. read' = [read EXCEPT ![r] = d] /\ request' = [request EXCEPT ![r] = q]
  BY DEF FirstTerm, AtlasInv, AtlasTyped
<1>3. /\ d \in AtlasRead /\ d.at \in {"ok", "rest"} /\ d.passed /\ d.failed = read[r].failed
      /\ d.refused = read[r].refused /\ d.refused \in Nat
  BY <1>1 DEF AtlasRead, Going
<1>4. q \in [Requests -> AtlasRequest]
  BY DEF AtlasRequest, NoRequest
<1>5. \A p \in Requests : q[p].at \in {"queued", "over"}
  BY DEF NoRequest
<1>6. q[Bulk].at = "over"
  BY SilenceFlies DEF NoRequest, Bulk
<1> HIDE DEF d, q
<1>7. Flying(q) = {} /\ Cardinality(Flying(q)) = 0
  <2>1. Flying(q) = {}
    BY <1>5 DEF Flying
  <2>2. QED
    BY <2>1, FS_EmptySet
<1>8. Counted(d, q)
  <2>1. d.failed = {} /\ d.refused = 0
    BY <1>1, <1>3 DEF ReadFit, Counted, Going
  <2>2. QED
    BY <1>3, <1>6, <1>7, <2>1, AtlasAssumption DEF Counted, Going
<1>9. QED
  BY <1>1, <1>2, <1>3, <1>4, <1>8, Untouched, OneRead DEF ReadFit, Dated, Covered

LEMMA NextTermKeeps ==
  ASSUME AtlasInv, NEW r \in Reads, NEW p \in Requests, NextTerm(r, p)
  PROVE  AtlasInv'
<1> DEFINE a == [NoRequest EXCEPT !.at = "sent", !.index = first', !.addr = first']
           q == [request[r] EXCEPT ![p] = a]
<1>1. /\ read[r].at = "rest" /\ read[r].failed = {} /\ request[r][p].at = "queued"
      /\ UNCHANGED <<first, generation, absent, exists, settled>> /\ first' \in Nat
      /\ request[r] \in [Requests -> AtlasRequest] /\ read[r] \in AtlasRead /\ ReadFit(read[r], request[r])
  BY DEF NextTerm, server, AtlasInv, AtlasTyped
<1>2. read' = [read EXCEPT ![r] = read[r]] /\ request' = [request EXCEPT ![r] = q] /\ UNCHANGED written
  BY FileKept DEF NextTerm, Starts, Sends, AtlasInv, AtlasTyped
<1>3. a \in AtlasRequest /\ a.at = "sent"
  BY <1>1 DEF AtlasRequest, NoRequest
<1> HIDE DEF a
<1>4. q \in [Requests -> AtlasRequest]
  BY <1>1, <1>3
<1>5. Flying(q) = Flying(request[r]) \cup {p} /\ p \notin Flying(request[r])
  BY <1>1, <1>3 DEF Flying
<1>6. Cardinality(Flying(q)) = Cardinality(Flying(request[r])) + 1
  BY <1>5, FlyingFinite, FS_AddElement
<1>7. Cardinality(Flying(request[r])) < MaxConcurrent
  BY DEF NextTerm, InFlight, Flying
<1>8. p # Bulk /\ q[Bulk] = request[r][Bulk]
  BY <1>1, <1>4, SilenceFlies DEF ReadFit, Counted
<1> HIDE DEF q
<1>9. Counted(read[r], q)
  <2>1. read[r].refused = 0
    BY <1>1 DEF ReadFit, Counted, Going
  <2>2. Cardinality(Flying(q)) <= MaxConcurrent /\ Cardinality(Flying(q)) \in Nat
    BY <1>6, <1>7, FlyingFinite, AtlasAssumption
  <2>3. 0 + Cardinality(Flying(q)) <= MaxConcurrent
    BY <2>2, AtlasAssumption
  <2>4. QED
    BY <1>1, <1>8, <2>1, <2>3 DEF ReadFit, Counted, Going
<1>10. QED
  BY <1>1, <1>2, <1>4, <1>9, Untouched, OneRead DEF ReadFit, Dated, Covered

LEMMA TermAnsweredKeeps ==
  ASSUME AtlasInv, NEW r \in Reads, NEW p \in Requests, TermAnswered(r, p)
  PROVE  AtlasInv'
<1> DEFINE done == read[r].failed = {} /\ \A o \in Requests \ {p, Bulk} : request[r][o].at = "over"
           how == IF done THEN "ok" ELSE read[r].at
           d == [read[r] EXCEPT !.at = how]
           q == [request[r] EXCEPT ![p].at = "over"]
<1>1. /\ read[r].at = "rest" /\ request[r][p].at = "answered"
      /\ UNCHANGED <<generation, written, absent, exists, settled>> /\ first' \in Nat
      /\ request[r] \in [Requests -> AtlasRequest] /\ read[r] \in AtlasRead /\ ReadFit(read[r], request[r])
      /\ request[r][p] \in AtlasRequest
  BY DEF TermAnswered, Says, file, server, AtlasInv, AtlasTyped, AtlasRequest
<1>2. read' = [read EXCEPT ![r] = d] /\ request' = [request EXCEPT ![r] = q]
  BY DEF TermAnswered, AtlasInv, AtlasTyped
<1>3. /\ d \in AtlasRead /\ d.at = how /\ d.passed = read[r].passed /\ d.failed = read[r].failed
      /\ d.refused = read[r].refused /\ d.refused \in Nat
  <2>1. how \in {"ok", "rest"}
    BY <1>1
  <2> HIDE DEF how
  <2>2. QED
    BY <1>1, <2>1 DEF AtlasRead, Going
<1>4. q \in [Requests -> AtlasRequest]
  <2>1. [request[r][p] EXCEPT !.at = "over"] \in AtlasRequest
    BY <1>1 DEF AtlasRequest
  <2>2. QED
    BY <1>1, <2>1
<1>5. Flying(q) = Flying(request[r]) \ {p} /\ p \in Flying(request[r])
  BY <1>1 DEF Flying, AtlasRequest
<1>6. Cardinality(Flying(q)) = Cardinality(Flying(request[r])) - 1
  BY <1>5, FlyingFinite, FS_RemoveElement
<1>7. p # Bulk /\ q[Bulk] = request[r][Bulk] /\ request[r][Bulk].at = "over"
  BY <1>1, <1>4, SilenceFlies DEF ReadFit, Counted
<1>8. done => Flying(q) = {}
  BY <1>1, <1>7 DEF Flying, AtlasRequest
<1> HIDE DEF d, q
<1>9. d.refused + Cardinality(Flying(q)) <= MaxConcurrent
  BY <1>1, <1>3, <1>6, FlyingFinite, AtlasAssumption DEF ReadFit, Counted
<1>10. Counted(d, q)
  <2>1. CASE done
    <3>1. d.at = "ok" /\ d.refused = 0
      BY <1>1, <1>3, <2>1 DEF ReadFit, Counted, Going
    <3>2. QED
      BY <1>8, <2>1, <3>1 DEF Counted, Going
  <2>2. CASE ~done
    <3>1. d.at = "rest"
      BY <1>1, <1>3, <2>2
    <3>2. QED
      BY <1>1, <1>3, <1>7, <1>9, <3>1 DEF ReadFit, Counted, Going
  <2>3. QED
    BY <2>1, <2>2
<1>11. Dated(d, q) /\ Covered(d)
  <2>1. d.at # "tables" /\ d.passed
    BY <1>1, <1>3 DEF ReadFit, Counted
  <2>2. QED
    BY <2>1 DEF Dated, Covered
<1>12. QED
  BY <1>1, <1>2, <1>3, <1>4, <1>10, <1>11, Untouched, OneRead DEF ReadFit

\* A read that is given up, or that a failure ends.
LEMMA GivenUpKeeps ==
  ASSUME AtlasInv, NEW r \in Reads, Abort(r) \/ Cut(r)
  PROVE  AtlasInv'
<1> DEFINE how == IF Cut(r) THEN "cut" ELSE FirstOf(read[r].failed)
           d == [read[r] EXCEPT !.at = how]
<1>1. /\ read[r].at \in Going /\ UNCHANGED <<first, generation, written, absent, exists, settled>> /\ first' \in Nat
      /\ read[r] \in AtlasRead /\ ReadFit(read[r], request[r])
  BY DEF Abort, Cut, Going, file, server, AtlasInv, AtlasTyped
<1>2. read' = [read EXCEPT ![r] = d] /\ request' = [request EXCEPT ![r] = Silence]
  BY DEF Abort, Cut
<1>3. how \in {"cut"} \cup Failures
  BY DEF FirstOf, Failures
<1>4. read[r].refused > 0 => how = "refused"
  <2>1. CASE Cut(r)
    BY <1>1, <2>1 DEF Cut, ReadFit, Counted
  <2>2. CASE ~Cut(r)
    BY <1>1, <2>2 DEF Abort, FirstOf, ReadFit, Counted
  <2>3. QED
    BY <2>1, <2>2
<1>5. how = "error" => read[r].failed \subseteq {"error"}
  <2>1. read[r].failed \subseteq Failures
    BY <1>1 DEF AtlasRead
  <2>2. QED
    BY <2>1 DEF FirstOf, Failures
<1>6. read[r].refused > 1 => read[r].passed /\ read[r].refused <= MaxConcurrent
  <2>1. ASSUME read[r].refused > 1, read[r].at = "rest"
        PROVE  read[r].refused <= MaxConcurrent /\ read[r].passed
    <3>1. read[r].refused + Cardinality(Flying(request[r])) <= MaxConcurrent /\ read[r].passed
      BY <1>1, <2>1 DEF ReadFit, Counted
    <3>2. read[r].refused \in Nat
      BY <1>1 DEF AtlasRead
    <3>3. QED
      BY <3>1, <3>2, FlyingFinite, AtlasAssumption
  <2>2. read[r].at \in {"tables", "first"} => read[r].refused = 0
    BY <1>1 DEF ReadFit, Counted, Going
  <2>3. QED
    BY <1>1, <2>1, <2>2 DEF Going
<1>7. d \in AtlasRead /\ d.at = how /\ d.refused = read[r].refused /\ d.passed = read[r].passed /\ d.failed = read[r].failed
  <2> HIDE DEF how
  <2>1. QED
    BY <1>1, <1>3 DEF AtlasRead, Failures
<1> HIDE DEF d, how
<1>8. ReadFit(d, Silence)
  BY <1>3, <1>4, <1>5, <1>6, <1>7, SilenceFlies DEF ReadFit, Counted, Dated, Covered, Going, Failures
<1>9. QED
  BY <1>1, <1>2, <1>7, <1>8, SilenceFlies, Untouched, OneRead

-----------------------------------------------------------------------------
(* The reads of tables *)

\* A read of tables that goes on with what s knows and is yet to ask.
Resumable(s) ==
  /\ s \in AtlasRead /\ s.at = "tables" /\ s.failed = {} /\ s.refused = 0
  /\ s.since \subseteq exists /\ s.learnt[1] <= generation /\ s.learnt[2] <= written
  /\ s.learnt = Now => s.since = settled
  /\ Asked(s, s.left)

LEMMA AsksOnKeeps ==
  ASSUME AtlasInv, Forgotten', UNCHANGED <<generation, exists, settled>>, first' \in Nat,
         absent' \in [Kinds -> Nat \X Nat], NEW r \in Reads, NEW s, Resumable(s), AsksOn(r, s)
  PROVE  AtlasInv'
<1> DEFINE on == IF s.left # {} THEN s ELSE [s EXCEPT !.types = @ \ {Min(@)}, !.left = Tables \ s.found]
<1>1. /\ on \in AtlasRead /\ on.at = "tables" /\ on.failed = {} /\ on.refused = 0
      /\ on.since = s.since /\ on.learnt = s.learnt /\ on.found = s.found /\ on.closed = s.closed
  BY DEF Resumable, AtlasRead
<1>2. Asked(on, on.left)
  <2>1. CASE s.left # {}
    BY <2>1 DEF Resumable
  <2>2. CASE s.left = {}
    <3>1. on.types = s.types \ {Min(s.types)} /\ on.left = Tables \ s.found
      BY <2>2 DEF Resumable, AtlasRead
    <3>2. SUFFICES ASSUME NEW x \in Tables, Holder[x] \in s.since, x \notin s.found \cup s.closed
                   PROVE  \E i \in on.types : Types[i] = Holder[x] /\ (i = Min(on.types) => x \in on.left)
      BY <1>1 DEF Asked
    <3>3. PICK i \in s.types : Types[i] = Holder[x] /\ (i = Min(s.types) => x \in s.left)
      BY <3>2 DEF Resumable, Asked
    <3>4. i \in on.types /\ x \in on.left
      BY <2>2, <3>1, <3>2, <3>3
    <3>5. QED
      BY <3>3, <3>4
  <2>3. QED
    BY <2>1, <2>2
<1>3. s.left = {} => on.left = Tables \ s.found
  BY DEF Resumable, AtlasRead
<1>4. /\ on.types = {} \/ on.left = {} =>
           /\ read' = [read EXCEPT ![r] = [on EXCEPT !.at = "ok"]]
           /\ request' = [request EXCEPT ![r] = Silence]
           /\ UNCHANGED file
      /\ ~(on.types = {} \/ on.left = {}) =>
           \E names \in SUBSET on.left :
             /\ read' = [read EXCEPT ![r] = [on EXCEPT !.batch = names, !.left = @ \ names]]
             /\ Starts(r, Bulk)
  BY DEF AsksOn
<1>5. s.left # {} => on = s
  OBVIOUS
<1> HIDE DEF on
<1>6. CASE on.types = {} \/ on.left = {}
  <2> DEFINE d == [on EXCEPT !.at = "ok"]
  <2>1. d \in AtlasRead /\ d.at = "ok" /\ d.refused = 0 /\ d.since = s.since /\ d.found = s.found /\ d.closed = s.closed
    BY <1>1 DEF AtlasRead
  <2>2. \A x \in Tables : Holder[x] \in s.since => x \in s.found \cup s.closed
    <3>1. CASE on.types = {}
      BY <1>1, <1>2, <3>1 DEF Asked
    <3>2. CASE on.left = {}
      BY <1>3, <1>5, <3>2
    <3>3. QED
      BY <1>6, <3>1, <3>2
  <2> HIDE DEF d
  <2>3. ReadFit(d, Silence)
    BY <2>1, <2>2, SilenceFlies DEF ReadFit, Counted, Dated, Covered, Going
  <2>4. read' = [read EXCEPT ![r] = d] /\ request' = [request EXCEPT ![r] = Silence] /\ UNCHANGED written
    BY <1>4, <1>6 DEF d, file
  <2>5. QED
    BY <2>1, <2>3, <2>4, SilenceFlies, OneRead DEF Steady
<1>7. CASE ~(on.types = {} \/ on.left = {})
  <2>1. PICK names \in SUBSET on.left :
          /\ read' = [read EXCEPT ![r] = [on EXCEPT !.batch = names, !.left = @ \ names]]
          /\ Starts(r, Bulk)
    BY <1>4, <1>7
  <2> DEFINE d == [on EXCEPT !.batch = names, !.left = @ \ names]
             a == [NoRequest EXCEPT !.at = "sent", !.index = first', !.addr = first']
             q == [request[r] EXCEPT ![Bulk] = a]
  <2>2. a \in AtlasRequest /\ a.at = "sent"
    BY DEF AtlasRequest, NoRequest
  <2>3. request[r] \in [Requests -> AtlasRequest]
    BY DEF AtlasInv, AtlasTyped
  <2>4. read' = [read EXCEPT ![r] = d] /\ request' = [request EXCEPT ![r] = q] /\ UNCHANGED written
    BY <2>1, FileKept DEF Starts, Sends, AtlasInv, AtlasTyped
  <2> HIDE DEF a
  <2>5. q \in [Requests -> AtlasRequest] /\ q[Bulk].at = "sent"
    BY <2>2, <2>3, SilenceFlies
  <2>6. /\ d \in AtlasRead /\ d.at = "tables" /\ d.refused = 0 /\ d.failed = {} /\ d.since = s.since
        /\ d.learnt = s.learnt /\ d.left \cup d.batch = on.left
        /\ d.found = on.found /\ d.closed = on.closed /\ d.types = on.types
    BY <1>1 DEF AtlasRead
  <2> HIDE DEF d, q
  <2>7. Counted(d, q)
    BY <2>6 DEF Counted, Going
  <2>8. Dated(d, q)
    BY <2>5, <2>6 DEF Dated, Resumable
  <2>9. Covered(d)
    BY <1>1, <1>2, <2>6 DEF Covered, Asked
  <2>10. QED
    BY <2>4, <2>5, <2>6, <2>7, <2>8, <2>9, OneRead DEF Steady, ReadFit
<1>8. QED
  BY <1>6, <1>7

LEMMA DescribeKeeps ==
  ASSUME AtlasInv, NEW r \in Reads, Describe(r)
  PROVE  AtlasInv'
<1> DEFINE s == [NotRead EXCEPT !.at = "tables", !.learnt = Now, !.since = settled, !.left = Tables,
                                !.types = {i \in DOMAIN Types : absent[Types[i]] # Now}]
<1>1. AsksOn(r, s) /\ UNCHANGED <<first, generation, absent, exists, settled>>
  BY DEF Describe, server
<1>2. Now \in Nat \X Nat /\ Never \in Nat \X Nat
  BY AtlasAssumption DEF AtlasInv, AtlasTyped, Now, Never
<1>3. /\ s.at = "tables" /\ s.failed = {} /\ s.refused = 0 /\ s.learnt = Now /\ s.since = settled
      /\ s.left = Tables /\ s.types = {i \in DOMAIN Types : absent[Types[i]] # Now}
      /\ s.found = {} /\ s.closed = {}
  BY DEF NotRead
<1>4. s \in AtlasRead
  <2>1. settled \subseteq Kinds
    BY DEF AtlasInv, AtlasTyped
  <2>2. QED
    BY <1>2, <2>1 DEF AtlasRead, NotRead, Going, Failures
<1> HIDE DEF s
<1>5. Asked(s, s.left)
  <2> SUFFICES ASSUME NEW x \in Tables, Holder[x] \in settled
               PROVE  \E i \in s.types : Types[i] = Holder[x] /\ x \in s.left
    BY <1>3 DEF Asked
  <2>1. PICK i \in DOMAIN Types : Types[i] = Holder[x]
    BY AtlasAssumption DEF Range
  <2>2. Holder[x] \in Kinds
    BY AtlasAssumption DEF Kinds
  <2>3. absent[Holder[x]] # Now
    BY <2>2 DEF AtlasInv, Forgotten
  <2>4. QED
    BY <1>3, <2>1, <2>3
<1>6. Resumable(s)
  <2>1. settled \subseteq exists /\ Now[1] <= generation /\ Now[2] <= written
    BY DEF AtlasInv, AtlasTyped, Forgotten, Now
  <2>2. QED
    BY <1>3, <1>4, <1>5, <2>1 DEF Resumable
<1>7. Forgotten' /\ first' \in Nat /\ absent' \in [Kinds -> Nat \X Nat]
  <2>1. UNCHANGED written
    BY <1>1, FileKept DEF AsksOn, Starts, Sends
  <2>2. QED
    BY <1>1, <2>1, Untouched DEF AtlasInv, AtlasTyped
<1>8. QED
  BY <1>1, <1>6, <1>7, AsksOnKeeps

LEMMA NoSuchTypeKeeps ==
  ASSUME AtlasInv, NEW r \in Reads, NoSuchType(r)
  PROVE  AtlasInv'
<1> DEFINE s == [read[r] EXCEPT !.left = {}]
<1>1. /\ read[r].at = "tables" /\ request[r][Bulk].at = "answered" /\ request[r][Bulk].says = "unknown"
      /\ first' = request[r][Bulk].addr /\ UNCHANGED <<generation, exists, settled>> /\ AsksOn(r, s)
      /\ absent' = [absent EXCEPT ![Type(r)] = read[r].learnt]
  BY DEF NoSuchType, Says, server, Learnt
<1>2. /\ read[r] \in AtlasRead /\ ReadFit(read[r], request[r]) /\ request[r][Bulk] \in AtlasRequest
      /\ absent \in [Kinds -> Nat \X Nat]
  BY SilenceFlies DEF AtlasInv, AtlasTyped
<1>3. /\ s \in AtlasRead /\ s.at = "tables" /\ s.failed = read[r].failed /\ s.refused = read[r].refused
      /\ s.learnt = read[r].learnt /\ s.since = read[r].since /\ s.left = {} /\ s.types = read[r].types
      /\ s.found = read[r].found /\ s.closed = read[r].closed
  BY <1>1, <1>2 DEF AtlasRead
<1> HIDE DEF s
<1>4. Type(r) \notin read[r].since
  BY <1>1, <1>2 DEF ReadFit, Dated, Type
<1>5. Resumable(s)
  <2>1. s.failed = {} /\ s.refused = 0
    BY <1>1, <1>2, <1>3 DEF ReadFit, Counted, Going
  <2>2. Asked(s, s.left)
    <3> SUFFICES ASSUME NEW x \in Tables, Holder[x] \in read[r].since, x \notin read[r].found \cup read[r].closed
                 PROVE  \E i \in s.types : Types[i] = Holder[x] /\ i # Min(s.types)
      BY <1>3 DEF Asked
    <3>1. PICK i \in read[r].types : Types[i] = Holder[x]
      BY <1>1, <1>2 DEF ReadFit, Covered, Asked
    <3>2. i # Min(read[r].types)
      BY <1>4, <3>1 DEF Type
    <3>3. QED
      BY <1>3, <3>1, <3>2
  <2>3. QED
    BY <1>1, <1>2, <1>3, <2>1, <2>2 DEF Resumable, ReadFit, Dated
<1>6. absent' \in [Kinds -> Nat \X Nat] /\ first' \in Nat
  <2>1. read[r].learnt \in Nat \X Nat /\ request[r][Bulk].addr \in Nat
    BY <1>2 DEF AtlasRead, AtlasRequest
  <2>2. QED
    BY <1>1, <1>2, <2>1
<1>7. Forgotten'
  <2>1. UNCHANGED written
    BY <1>1, FileKept DEF AsksOn, Starts, Sends, file
  <2>2. settled \subseteq exists /\ UNCHANGED <<generation, exists, settled, written>>
    BY <1>1, <2>1 DEF AtlasInv, Forgotten
  <2>3. ASSUME NEW t \in Kinds
        PROVE  /\ absent'[t][2] = 0 \/ (absent'[t][1] <= generation /\ absent'[t][2] <= written)
               /\ absent'[t] = Now => t \notin settled
    <3>1. CASE t = Type(r)
      <4>1. absent'[t] = read[r].learnt
        BY <1>1, <1>2, <3>1
      <4>2. read[r].learnt[1] <= generation /\ read[r].learnt[2] <= written /\ (read[r].learnt = Now => read[r].since = settled)
        BY <1>1, <1>2 DEF ReadFit, Dated
      <4>3. QED
        BY <1>4, <3>1, <4>1, <4>2
    <3>2. CASE t # Type(r)
      BY <1>1, <1>2, <3>2 DEF AtlasInv, Forgotten
    <3>3. QED
      BY <3>1, <3>2
  <2>4. QED
    BY <2>2, <2>3 DEF Forgotten, Now
<1>8. QED
  BY <1>1, <1>5, <1>6, <1>7, AsksOnKeeps

LEMMA TablesAnsweredKeeps ==
  ASSUME AtlasInv, NEW r \in Reads, TablesAnswered(r)
  PROVE  AtlasInv'
<1> DEFINE s == IF Held(r) \cap Closed # {} THEN [read[r] EXCEPT !.closed = @ \cup read[r].batch]
                ELSE [read[r] EXCEPT !.found = @ \cup Held(r)]
<1>1. /\ read[r].at = "tables" /\ first' = request[r][Bulk].addr
      /\ UNCHANGED <<generation, absent, exists, settled>> /\ AsksOn(r, s)
  BY DEF TablesAnswered, Says, server
<1>2. /\ read[r] \in AtlasRead /\ ReadFit(read[r], request[r]) /\ request[r][Bulk] \in AtlasRequest
      /\ Held(r) \subseteq Tables /\ absent \in [Kinds -> Nat \X Nat]
  BY SilenceFlies DEF AtlasInv, AtlasTyped, Held, AtlasRead
<1>3. /\ s \in AtlasRead /\ s.at = "tables" /\ s.failed = read[r].failed /\ s.refused = read[r].refused
      /\ s.learnt = read[r].learnt /\ s.since = read[r].since /\ s.left = read[r].left /\ s.types = read[r].types
      /\ read[r].found \cup read[r].closed \cup Held(r) \subseteq s.found \cup s.closed
  <2>1. CASE Held(r) \cap Closed # {}
    <3>1. s = [read[r] EXCEPT !.closed = read[r].closed \cup read[r].batch] /\ Held(r) \subseteq read[r].batch
      BY <2>1 DEF Held
    <3>2. read[r].closed \cup read[r].batch \in SUBSET Tables
      BY <1>2 DEF AtlasRead
    <3> HIDE DEF s
    <3>3. QED
      BY <1>1, <1>2, <3>1, <3>2 DEF AtlasRead
  <2>2. CASE Held(r) \cap Closed = {}
    <3>1. s = [read[r] EXCEPT !.found = read[r].found \cup Held(r)]
      BY <2>2
    <3>2. read[r].found \cup Held(r) \in SUBSET Tables
      BY <1>2 DEF AtlasRead
    <3> HIDE DEF s
    <3>3. QED
      BY <1>1, <1>2, <3>1, <3>2 DEF AtlasRead
  <2>3. QED
    BY <2>1, <2>2
<1> HIDE DEF s
<1>4. Resumable(s)
  <2>1. s.failed = {} /\ s.refused = 0
    BY <1>1, <1>2, <1>3 DEF ReadFit, Counted, Going
  <2>2. Asked(s, s.left)
    <3> SUFFICES ASSUME NEW x \in Tables, Holder[x] \in read[r].since, x \notin s.found \cup s.closed
                 PROVE  \E i \in s.types : Types[i] = Holder[x] /\ (i = Min(s.types) => x \in s.left)
      BY <1>3 DEF Asked
    <3>1. PICK i \in read[r].types : Types[i] = Holder[x] /\ (i = Min(read[r].types) => x \in read[r].left \cup read[r].batch)
      BY <1>1, <1>2, <1>3 DEF ReadFit, Covered, Asked
    <3>2. i = Min(read[r].types) => x \notin read[r].batch
      BY <1>3, <3>1 DEF Held, Type
    <3>3. QED
      BY <1>3, <3>1, <3>2
  <2>3. QED
    BY <1>1, <1>2, <1>3, <2>1, <2>2 DEF Resumable, ReadFit, Dated
<1>5. Forgotten' /\ first' \in Nat /\ absent' \in [Kinds -> Nat \X Nat]
  <2>1. UNCHANGED written
    BY <1>1, FileKept DEF AsksOn, Starts, Sends, file
  <2>2. request[r][Bulk].addr \in Nat
    BY <1>2 DEF AtlasRequest
  <2>3. QED
    BY <1>1, <2>1, <2>2, Untouched
<1>6. QED
  BY <1>1, <1>4, <1>5, AsksOnKeeps

-----------------------------------------------------------------------------
(* What happens to the file, to Atlas and to the server *)

LEMMA AnswerKeeps ==
  ASSUME AtlasInv, NEW r \in Reads, NEW p \in Requests, Answer(r, p)
  PROVE  AtlasInv'
<1> DEFINE says == IF carried[<<r, p>>] # accepted THEN "refused"
                   ELSE IF p = Bulk /\ Type(r) \notin exists THEN "unknown" ELSE "yes"
           a == [request[r][p] EXCEPT !.at = "answered", !.says = says]
           q == [request[r] EXCEPT ![p] = a]
<1>1. /\ request[r][p].at = "sent" /\ UNCHANGED <<first, generation, absent, read, written, exists, settled>>
      /\ request[r] \in [Requests -> AtlasRequest] /\ read[r] \in AtlasRead /\ ReadFit(read[r], request[r])
      /\ request[r][p] \in AtlasRequest
  BY DEF Answer, file, server, AtlasInv, AtlasTyped
<1>2. read' = [read EXCEPT ![r] = read[r]] /\ request' = [request EXCEPT ![r] = q] /\ first' \in Nat
  BY DEF Answer, AtlasInv, AtlasTyped
<1>3. a \in AtlasRequest /\ a.at = "answered" /\ a.says = says
  <2>1. says \in {"refused", "unknown", "yes"}
    OBVIOUS
  <2> HIDE DEF says
  <2>2. QED
    BY <1>1, <2>1 DEF AtlasRequest
<1>4. p = Bulk /\ says = "unknown" => Type(r) \notin exists
  OBVIOUS
<1> HIDE DEF a, says
<1>5. q \in [Requests -> AtlasRequest]
  BY <1>1, <1>3
<1>6. Flying(q) = Flying(request[r])
  BY <1>1, <1>3 DEF Flying
<1>7. p # Bulk => q[Bulk] = request[r][Bulk]
  BY <1>1, SilenceFlies
<1>8. p = Bulk => q[Bulk] = a
  BY <1>1, SilenceFlies
<1> HIDE DEF q
<1>9. Counted(read[r], q)
  BY <1>1, <1>6, <1>7, Underway DEF ReadFit, Counted, Going
<1>10. Dated(read[r], q)
  <2>1. CASE p = Bulk
    BY <1>1, <1>3, <1>4, <1>8, <2>1 DEF ReadFit, Dated, Type
  <2>2. CASE p # Bulk
    BY <1>1, <1>7, <2>2 DEF ReadFit, Dated
  <2>3. QED
    BY <2>1, <2>2
<1>11. QED
  BY <1>1, <1>2, <1>5, <1>9, <1>10, Untouched, OneRead DEF ReadFit

LEMMA WorldKeeps ==
  ASSUME AtlasInv, Rotate \/ Accept \/ Reset \/ (\E t \in Kinds : Create(t))
  PROVE  AtlasInv'
<1>1. UNCHANGED <<first, absent, read, request>>
  BY DEF Rotate, Accept, Reset, Create
<1>2. /\ exists \subseteq exists' /\ exists' \subseteq Kinds
      /\ \/ settled' = exists /\ exists' = exists /\ generation' = generation + 1 /\ written' = written
         \/ settled' = exists /\ exists' = exists /\ generation' = generation /\ written' = written + 1
         \/ UNCHANGED <<settled, generation, written>>
  BY DEF Rotate, Accept, Reset, Create, FileSecret!Offer, file, server, AtlasInv, AtlasTyped
<1>3. AtlasTyped'
  BY <1>1, <1>2 DEF AtlasInv, AtlasTyped
<1>4. generation \in Nat /\ written \in Nat \ {0} /\ absent \in [Kinds -> Nat \X Nat]
  BY DEF AtlasInv, AtlasTyped
<1>5. Forgotten'
  <2>1. settled' \subseteq exists'
    BY <1>2 DEF AtlasInv, Forgotten
  <2>2. ASSUME NEW t \in Kinds
        PROVE  /\ absent[t][2] = 0 \/ (absent[t][1] <= generation' /\ absent[t][2] <= written')
               /\ absent[t] = <<generation', written'>> => t \notin settled'
    <3>1. absent[t][1] \in Nat /\ absent[t][2] \in Nat
      BY <1>4
    <3>2. /\ absent[t][2] = 0 \/ (absent[t][1] <= generation /\ absent[t][2] <= written)
          /\ absent[t] = <<generation, written>> => t \notin settled
      BY DEF AtlasInv, Forgotten, Now
    <3>3. absent[t] = <<generation', written'>> => absent[t][1] = generation' /\ absent[t][2] = written'
      OBVIOUS
    <3>4. QED
      BY <1>2, <1>4, <3>1, <3>2, <3>3
  <2>3. QED
    BY <1>1, <2>1, <2>2 DEF Forgotten, Now
<1>6. ASSUME NEW r \in Reads PROVE ReadFit(read[r], request[r])'
  <2>1. ReadFit(read[r], request[r]) /\ read[r] \in AtlasRead
    BY DEF AtlasInv, AtlasTyped
  <2>2. Dated(read[r], request[r])'
    <3> SUFFICES ASSUME read[r].at = "tables"
                 PROVE  /\ read[r].since \subseteq exists'
                        /\ read[r].learnt[1] <= generation' /\ read[r].learnt[2] <= written'
                        /\ read[r].learnt = <<generation', written'>> => read[r].since = settled'
                        /\ request[r][Bulk].at = "answered" /\ request[r][Bulk].says = "unknown" =>
                             Types[Min(read[r].types)] \notin read[r].since
      BY <1>1 DEF Dated, Now
    <3>1. /\ read[r].since \subseteq exists /\ read[r].learnt[1] <= generation /\ read[r].learnt[2] <= written
          /\ read[r].learnt = <<generation, written>> => read[r].since = settled
          /\ request[r][Bulk].at = "answered" /\ request[r][Bulk].says = "unknown" =>
               Types[Min(read[r].types)] \notin read[r].since
      BY <2>1 DEF ReadFit, Dated, Now
    <3>2. read[r].learnt[1] \in Nat /\ read[r].learnt[2] \in Nat
      BY <2>1 DEF AtlasRead
    <3>3. read[r].learnt = <<generation', written'>> => read[r].learnt[1] = generation' /\ read[r].learnt[2] = written'
      OBVIOUS
    <3>4. QED
      BY <1>2, <1>4, <3>1, <3>2, <3>3
  <2>3. QED
    BY <1>1, <2>1, <2>2 DEF ReadFit, Counted, Covered, Asked
<1>7. QED
  BY <1>3, <1>5, <1>6 DEF AtlasInv

LEMMA AtlasInitInv == AtlasInit => AtlasInv
<1> SUFFICES ASSUME AtlasInit PROVE AtlasInv
  OBVIOUS
<1>1. Never \in Nat \X Nat /\ Never[2] = 0 /\ <<0, 1>>[2] = 1
  BY AtlasAssumption DEF Never
<1>2. NotRead \in AtlasRead /\ NotRead.at = "idle" /\ NotRead.failed = {} /\ NotRead.refused = 0
  BY <1>1 DEF NotRead, AtlasRead
<1>3. AtlasTyped
  BY <1>1, <1>2, SilenceFlies DEF AtlasInit, AtlasTyped
<1>4. Forgotten
  <2>1. \A t \in Kinds : absent[t] = Never
    BY DEF AtlasInit
  <2>2. Now # Never
    BY <1>1 DEF AtlasInit, Now
  <2>3. QED
    BY <1>1, <2>1, <2>2 DEF AtlasInit, Forgotten
<1>5. ASSUME NEW r \in Reads PROVE ReadFit(read[r], request[r])
  <2>1. read[r] = NotRead /\ request[r] = Silence
    BY DEF AtlasInit
  <2>2. QED
    BY <1>2, <2>1, SilenceFlies DEF ReadFit, Counted, Dated, Covered, Going
<1>6. QED
  BY <1>3, <1>4, <1>5 DEF AtlasInv

LEMMA AtlasNextInv == AtlasInv /\ [AtlasNext]_atlasVars => AtlasInv'
<1> SUFFICES ASSUME AtlasInv, [AtlasNext]_atlasVars PROVE AtlasInv'
  OBVIOUS
<1>1. CASE Rotate \/ Accept \/ Reset \/ (\E t \in Kinds : Create(t))
  BY <1>1, WorldKeeps
<1>2. ASSUME NEW r \in Reads, Describe(r) \/ NoSuchType(r) \/ TablesAnswered(r)
      PROVE  AtlasInv'
  BY <1>2, DescribeKeeps, NoSuchTypeKeeps, TablesAnsweredKeeps
<1>3. ASSUME NEW r \in Reads, Terms(r) \/ FirstTerm(r) \/ Abort(r) \/ Cut(r)
      PROVE  AtlasInv'
  BY <1>3, TermsKeeps, FirstTermKeeps, GivenUpKeeps
<1>4. ASSUME NEW r \in Reads, NEW p \in Requests,
             \/ Silent(r, p) \/ Outage(r, p) \/ Redirect(r, p) \/ Outside(r, p)
             \/ Broken(r, p) \/ Refuse(r, p) \/ Garbled(r, p)
      PROVE  AtlasInv'
  BY <1>4, TroubleKeeps, RedirectKeeps
<1>5. ASSUME NEW r \in Reads, NEW p \in Requests, Answer(r, p) \/ NextTerm(r, p) \/ TermAnswered(r, p)
      PROVE  AtlasInv'
  BY <1>5, AnswerKeeps, NextTermKeeps, TermAnsweredKeeps
<1>6. CASE UNCHANGED atlasVars
  BY <1>6 DEF atlasVars, file, server, AtlasInv, AtlasTyped, Forgotten, ReadFit, Counted, Dated, Covered, Asked, Now
<1>7. QED
  BY <1>1, <1>2, <1>3, <1>4, <1>5, <1>6 DEF AtlasNext

LEMMA AtlasInvHolds == AtlasSpec => []AtlasInv
  BY AtlasInitInv, AtlasNextInv, PTL DEF AtlasSpec

\* An account Atlas refuses is tried once by a call, whatever addresses there are; a call
\* that was let in first may be refused as often as it has requests under way, and sends
\* none after (AtlasClient._read, AtlasProvider._parallel).
THEOREM RefusedOnceHolds == AtlasSpec => []RefusedOnce
<1>1. AtlasInv => RefusedOnce
  <2> SUFFICES ASSUME AtlasInv, NEW r \in Reads, read[r].refused > 1
               PROVE  read[r].passed /\ read[r].refused <= MaxConcurrent
    BY DEF RefusedOnce
  <2>1. Counted(read[r], request[r]) /\ read[r].refused \in Nat
    BY DEF AtlasInv, AtlasTyped, AtlasRead, ReadFit
  <2>2. CASE read[r].at = "rest"
    BY <2>1, <2>2, FlyingFinite, AtlasAssumption DEF Counted
  <2>3. CASE read[r].at \in {"tables", "first"}
    BY <2>1, <2>3 DEF Counted, Going
  <2>4. CASE read[r].at \notin Going
    BY <2>1, <2>4 DEF Counted
  <2>5. QED
    BY <2>2, <2>3, <2>4 DEF Going
<1>2. QED
  BY <1>1, AtlasInvHolds, PTL

\* The record of the types Atlas does not know, which the reads share and write as they
\* learn, never hides a table of a type that was there when the signal or the secret last
\* changed before the read (AtlasProvider._entities, reset).
THEOREM NoTypeLostHolds == AtlasSpec => []NoTypeLost
<1>1. AtlasInv => NoTypeLost
  BY DEF AtlasInv, ReadFit, Covered, NoTypeLost
<1>2. QED
  BY <1>1, AtlasInvHolds, PTL

\* Of the failures of reads at once the refusal is told, in whatever order they came, an
\* error of another kind only when none says that Atlas did not answer, and a call that is
\* over has nothing under way (_first_of, _parallel).
THEOREM RefusalToldHolds == AtlasSpec => []RefusalTold
<1>1. AtlasInv => RefusalTold
  BY DEF AtlasInv, ReadFit, Counted, RefusalTold, Flying, InFlight
<1>2. QED
  BY <1>1, AtlasInvHolds, PTL
=============================================================================
