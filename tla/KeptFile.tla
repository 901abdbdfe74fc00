------------------------------ MODULE KeptFile ------------------------------
(***************************************************************************)
(* A file that is read again when it changes: the secret of a context      *)
(* source (context/secrets.py) and the document of the file source         *)
(* (context/file.py).  Someone writes the file: a good content, a bad one  *)
(* (empty, cut short, undecodable, not valid), one moved away and back.    *)
(* The callers, in threads, look at its identity and read it again under a *)
(* lock; maps looks without the lock.                                      *)
(*                                                                         *)
(* Good contents are numbered as they are given.  Every write gives the    *)
(* file a new identity: a rewrite in place of the same size within one     *)
(* tick of the clock of the file system is not modelled.                   *)
(***************************************************************************)
EXTENDS Naturals, FiniteSets

CONSTANTS
  Callers,    \* the threads that ask for the content
  Askers,     \* those that ask maps
  MaxWrites,  \* writes and moves of the file
  MaxFaults,  \* reads of a file that is there which fail (EIO, EMFILE)
  MaxCalls    \* calls of each caller

ASSUME KeptFileAssumption ==
  /\ IsFiniteSet(Callers)
  /\ MaxWrites \in Nat /\ MaxFaults \in Nat /\ MaxCalls \in Nat

VARIABLES
  kind,     \* "secret" or "document"
  disk,     \* the file: its identity and what it holds
  aside,    \* the file that was moved away
  offered, writes, faults,
  status,   \* of the server: "starting", "serving" or "refused"
  seen,     \* _seen: the identity last read, or marked as read
  shown,    \* _value or _content
  lock,     \* who holds _lock: one or none
  call,     \* each caller: where it is, the identity it found, what it read
  calls, answer,
  ask,      \* each asker of maps: where it is and what it saw
  \* history
  since,    \* of each call: the content on disk when it began, whether the file could be
            \* read ever since, and whether it had been marked without being read
  unread    \* an identity marked as read whose read failed

files == <<disk, aside, offered, writes>>
served == <<seen, shown>>
history == <<since, unread>>
vars == <<kind, files, faults, status, served, lock, call, calls, answer, ask, history>>

Gone == 0      \* the identity of no file
Bad == 0       \* a content that is not good
Unseen == MaxWrites + 2   \* _seen before the first read

Threads == Callers \cup Askers
Secret == kind = "secret"
Document == kind = "document"
Good == disk.id # Gone /\ disk.holds # Bad

Idle == [at |-> "idle", id |-> Gone, text |-> Bad]
NotAsked == [at |-> "idle", for |-> Bad, listed |-> FALSE, id |-> Gone, no |-> FALSE, clear |-> TRUE]

Init ==
  /\ kind \in {"secret", "document"}
  /\ disk \in {[id |-> 1, holds |-> 1], [id |-> 1, holds |-> Bad], [id |-> Gone, holds |-> Bad]}
  /\ aside = [id |-> Gone, holds |-> Bad]
  /\ offered = disk.holds /\ writes = 0 /\ faults = 0
  /\ status = "starting"
  /\ seen = Unseen /\ shown = 0
  /\ lock = {}
  /\ call = [c \in Callers |-> Idle]
  /\ calls = [c \in Callers |-> 0]
  /\ answer = [c \in Callers |-> 0]
  /\ ask = [m \in Askers |-> NotAsked]
  /\ since = [c \in Callers |-> [held |-> Bad, steady |-> TRUE, missed |-> FALSE]]
  /\ unread = Unseen

-----------------------------------------------------------------------------
(* The file *)

\* A file that cannot be read during a call frees it of what it must answer.
Disturbs ==
  /\ since' = [c \in Callers |-> [since[c] EXCEPT !.steady = FALSE]]
  /\ ask' = [m \in Askers |-> [ask[m] EXCEPT !.clear = FALSE]]

Written(holds) ==
  /\ writes < MaxWrites /\ writes' = writes + 1
  /\ disk' = [id |-> writes + 2, holds |-> holds]
  /\ UNCHANGED <<kind, aside, faults, status, served, lock, call, calls, answer, unread>>

\* A whole new content: another file moved in its place, or the end of a rewrite.
Replace == Written(offered + 1) /\ offered' = offered + 1 /\ UNCHANGED <<since, ask>>

\* An empty or bad file, or a rewrite in place that has truncated it.
Spoil == Written(Bad) /\ UNCHANGED offered /\ Disturbs

MoveAway ==
  /\ disk.id # Gone /\ writes < MaxWrites /\ writes' = writes + 1
  /\ aside' = disk /\ disk' = [id |-> Gone, holds |-> Bad]
  /\ Disturbs
  /\ UNCHANGED <<kind, offered, faults, status, served, lock, call, calls, answer, unread>>

\* The same file is back, with the identity it had.
MoveBack ==
  /\ disk.id = Gone /\ aside.id # Gone
  /\ disk' = aside /\ aside' = [id |-> Gone, holds |-> Bad]
  /\ UNCHANGED <<kind, offered, writes, faults, status, served, lock, call, calls, answer, ask, history>>

-----------------------------------------------------------------------------
(* FileSecret.value, FileProvider._refresh *)

Begin(c) ==
  /\ status = "serving" \/ (status = "starting" /\ \A d \in Callers : call[d] = Idle /\ calls[d] = 0)
  /\ call[c].at = "idle" /\ calls[c] < MaxCalls
  /\ call' = [call EXCEPT ![c] = [Idle EXCEPT !.at = "waiting"]]
  /\ calls' = [calls EXCEPT ![c] = @ + 1]
  /\ answer' = [answer EXCEPT ![c] = 0]
  /\ since' = [since EXCEPT ![c] = [held |-> disk.holds, steady |-> Good, missed |-> unread = disk.id]]
  /\ UNCHANGED <<kind, files, faults, status, served, lock, ask, unread>>

\* Mutant of Take: two callers read at once.
TakeUnlocked(c) ==
  /\ call[c].at = "waiting"
  /\ lock' = {c}
  /\ call' = [call EXCEPT ![c].at = "stat"]
  /\ UNCHANGED <<kind, files, faults, status, served, calls, answer, ask, history>>

Take(c) ==
  /\ call[c].at = "waiting" /\ lock = {}
  /\ lock' = {c}
  /\ call' = [call EXCEPT ![c].at = "stat"]
  /\ UNCHANGED <<kind, files, faults, status, served, calls, answer, ask, history>>

\* The call gives up the lock with an answer; the first one lets the server start.
Returns(c, content) ==
  /\ lock' = lock \ {c}
  /\ call' = [call EXCEPT ![c] = Idle]
  /\ answer' = [answer EXCEPT ![c] = content]
  /\ status' = IF status = "starting" THEN "serving" ELSE status

\* It raises; a server that cannot read its file does not start.
Raises(c) ==
  /\ lock' = lock \ {c}
  /\ call' = [call EXCEPT ![c] = Idle]
  /\ status' = IF status = "starting" THEN "refused" ELSE status
  /\ UNCHANGED answer

\* Mutant of Marked: a secret too is marked before it is read.
MarkedBefore == disk.id

\* What the first look at the file marks: the document is seen before it is read.
Marked == IF Document THEN disk.id ELSE seen

Stat(c) ==
  /\ call[c].at = "stat"
  /\ IF Secret /\ disk.id = Gone
       THEN Raises(c) /\ UNCHANGED seen
     ELSE IF disk.id = seen
       THEN Returns(c, shown) /\ UNCHANGED seen
     ELSE /\ seen' = Marked
          /\ call' = [call EXCEPT ![c] = [at |-> "read", id |-> disk.id, text |-> Bad]]
          /\ UNCHANGED <<lock, answer, status>>
  /\ ask' = [m \in Askers |-> [ask[m] EXCEPT !.clear = @ /\ call'[c].at # "read"]]
  /\ UNCHANGED <<kind, files, faults, shown, calls, history>>

\* The read fails: a secret raises and is not marked, so the next call reads again;
\* a document keeps its content, marked.  The first read of either raises.
Fails(c) ==
  /\ IF Secret \/ shown = 0 THEN Raises(c) ELSE Returns(c, shown)
  /\ unread' = IF Document THEN call[c].id ELSE unread
  /\ UNCHANGED served

\* The content is not good: the last good one is kept, and the file marked.
KeepsLast(c) ==
  /\ IF shown = 0 THEN Raises(c) /\ UNCHANGED seen ELSE Returns(c, shown) /\ seen' = call[c].id
  /\ UNCHANGED <<shown, unread>>

Takes(c) ==
  /\ call' = [call EXCEPT ![c] = [at |-> "keep", id |-> call[c].id, text |-> disk.holds]]
  /\ UNCHANGED <<status, served, lock, answer, unread>>

Read(c) ==
  /\ call[c].at = "read"
  /\ \/ Good /\ Takes(c) /\ UNCHANGED <<faults, since, ask>>
     \/ disk.id # Gone /\ disk.holds = Bad /\ KeepsLast(c) /\ UNCHANGED <<faults, since, ask>>
     \/ disk.id = Gone /\ Fails(c) /\ UNCHANGED <<faults, since, ask>>
     \/ /\ disk.id # Gone /\ faults < MaxFaults /\ faults' = faults + 1
        /\ Fails(c) /\ Disturbs
  /\ UNCHANGED <<kind, files, calls>>

Keep(c) ==
  /\ call[c].at = "keep"
  /\ shown' = call[c].text /\ seen' = call[c].id
  /\ Returns(c, call[c].text)
  /\ UNCHANGED <<kind, files, faults, calls, ask, history>>

-----------------------------------------------------------------------------
(* FileProvider.maps: the content, then the identity, then what is seen *)

Refreshing == \E c \in Callers : call[c].at \in {"read", "keep"}

\* A catalog that the content on disk lists, and no content before it.
AskMaps(m) ==
  /\ Document /\ status = "serving" /\ Good /\ unread # disk.id
  /\ ask[m].at = "idle"
  /\ ask' = [ask EXCEPT ![m] = [at |-> "looked", for |-> disk.holds, listed |-> shown >= disk.holds,
                                id |-> Gone, no |-> FALSE, clear |-> ~Refreshing]]
  /\ UNCHANGED <<kind, files, faults, status, served, lock, call, calls, answer, history>>

LookAtDisk(m) ==
  /\ ask[m].at = "looked"
  /\ ask' = [ask EXCEPT ![m].at = "compare", ![m].id = disk.id]
  /\ UNCHANGED <<kind, files, faults, status, served, lock, call, calls, answer, history>>

\* Mutant of Compare: only the content that was read counts.
CompareContent(m) ==
  /\ ask[m].at = "compare"
  /\ ask' = [ask EXCEPT ![m].at = "answered", ![m].no = ~ask[m].listed]
  /\ UNCHANGED <<kind, files, faults, status, served, lock, call, calls, answer, history>>

Compare(m) ==
  /\ ask[m].at = "compare"
  /\ ask' = [ask EXCEPT ![m].at = "answered", ![m].no = ~ask[m].listed /\ ask[m].id = seen]
  /\ UNCHANGED <<kind, files, faults, status, served, lock, call, calls, answer, history>>

Next ==
  \/ Replace \/ Spoil \/ MoveAway \/ MoveBack
  \/ \E c \in Callers : Begin(c) \/ Take(c) \/ Stat(c) \/ Read(c) \/ Keep(c)
  \/ \E m \in Askers : AskMaps(m) \/ LookAtDisk(m) \/ Compare(m)

Spec == Init /\ [][Next]_vars

-----------------------------------------------------------------------------
(* Properties *)

TypeOK ==
  /\ kind \in {"secret", "document"}
  /\ disk \in [id : Nat, holds : Nat] /\ aside \in [id : Nat, holds : Nat]
  /\ offered \in Nat /\ writes \in Nat /\ faults \in Nat
  /\ status \in {"starting", "serving", "refused"}
  /\ seen \in Nat /\ shown \in Nat
  /\ lock \subseteq Callers
  /\ call \in [Callers -> [at : {"idle", "waiting", "stat", "read", "keep"}, id : Nat, text : Nat]]
  /\ calls \in [Callers -> Nat] /\ answer \in [Callers -> Nat]
  /\ since \in [Callers -> [held : Nat, steady : BOOLEAN, missed : BOOLEAN]]
  /\ ask \in [Askers -> [at : {"idle", "looked", "compare", "answered"}, for : Nat, listed : BOOLEAN, id : Nat,
                         no : BOOLEAN, clear : BOOLEAN]]
  /\ unread \in Nat

\* The callers see one good content after another, whatever happens to the file: never a
\* bad one, never one older than one already answered to anyone.
Promise == INSTANCE LastGood

ServesLastGood == Promise!Spec

\* The calls that are over: answered, or refused with an error.
Over(c) == call[c].at = "idle" /\ calls[c] > 0

\* A call during which the file could be read answers the content that was on disk when
\* it began, or a newer one, and raises nothing; but a document marked as read by a read
\* that failed stays unread until it changes again.
FreshAnswer ==
  \A c \in Callers : Over(c) /\ since[c].steady /\ ~since[c].missed => answer[c] >= since[c].held

\* "A change is seen within one MCP_CONTEXT_TTL_SECONDS" (docs/en/catalog-context.md):
\* as FreshAnswer, with nothing said of a read that failed before the call.
ChangeIsSeen == \A c \in Callers : Over(c) /\ since[c].steady => answer[c] >= since[c].held

\* maps says no to a catalog the file lists only while the file is being read again, or
\* when it was while maps looked.
NoOnlyWhileRead == \A m \in Askers : ask[m].no => ~ask[m].clear
=============================================================================
