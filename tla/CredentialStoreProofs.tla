------------------------ MODULE CredentialStoreProofs ------------------------
(***************************************************************************)
(* For any number of helpers, calls, faults and losses of power: no helper *)
(* replaces a readable document by one that does not follow from it, and   *)
(* what was answered or removed is durable.                                *)
(*                                                                         *)
(* The properties speak of the disk and of the entry's calls; they hold    *)
(* because of what a helper keeps between two steps under the lock.  The   *)
(* document it is about to write follows from the visible one, which no    *)
(* other helper changes while the lock is held (TasksSound).  A document   *)
(* that cannot be read contains no call, and the visible document is one   *)
(* of those a loss of power may leave (DiskSound).                         *)
(***************************************************************************)
EXTENDS CredentialStore, SequenceTheorems, TLAPS

\* A document contains the call it has a receipt of, and none if it is gone.
Sound(d) ==
    /\ d.format \in {"missing", "torn"} => d.calls = {}
    /\ d.by # None => d.by \in d.calls

Follows(d, old) ==
    \/ old.format \in {"missing", "torn"}
    \/ old.calls \subseteq d.calls /\ d.revision = old.revision + 1

DiskSound ==
    /\ visible \in outcomes /\ flushed
    /\ \A d \in outcomes : Sound(d)

TaskSound(h) ==
    task[h] # None =>
        /\ task[h].step \in {"writing", "flushed"} =>
             /\ Readable(task[h].doc) /\ Sound(task[h].doc)
             /\ Follows(task[h].doc, visible)
        /\ task[h].step = "flushed" => task[h].flushed
        /\ task[h].step = "settling" => Readable(visible)

TasksSound == \A h \in Helper : TaskSound(h)

StoreInv == TypeOK /\ DiskSound /\ TasksSound /\ ReliedOnIsDurable

NoNewCommitted ==
    \A n \in DOMAIN log' :
        log'[n].told = "committed" => n \in DOMAIN log /\ log[n].told = "committed"

-----------------------------------------------------------------------------
\* Told what became of a call, the entry's log keeps its type and its length.
LEMMA TellKeeps ==
    ASSUME log \in Seq(Entry), NEW n \in 1 .. Len(log),
           NEW what \in Outcome \cup {None, "reading"}, Tell(n, what)
    PROVE  /\ log' \in Seq(Entry) /\ Len(log') = Len(log)
           /\ \A k \in 1 .. Len(log) : log'[k].told = IF k = n THEN what ELSE log[k].told
  <1>1. log[n] \in Entry
    BY ElementOfSeq
  <1>2. [log[n] EXCEPT !.told = what] \in Entry
    BY <1>1 DEF Entry
  <1>3. log' = [log EXCEPT ![n] = [log[n] EXCEPT !.told = what]]
    BY DEF Tell
  <1>4. /\ log' \in Seq(Entry) /\ Len(log') = Len(log)
        /\ \A k \in 1 .. Len(log) :
             log'[k] = IF k = n THEN [log[n] EXCEPT !.told = what] ELSE log[k]
    BY <1>2, <1>3, ExceptSeq
  <1>5. [log[n] EXCEPT !.told = what].told = what
    BY <1>1 DEF Entry
  <1> QED BY <1>4, <1>5

\* So it does when an attempt is sent again; no call is answered by that.
LEMMA SendAgainKeeps ==
    ASSUME log \in Seq(Entry), NEW n \in 1 .. Len(log), n \in Call,
           NEW box \in [Helper -> SUBSET Message], NEW h \in Helper,
           SendAgain(box, n, h)
    PROVE  /\ log' \in Seq(Entry) /\ Len(log') = Len(log)
           /\ \A k \in 1 .. Len(log) : log'[k].told = log[k].told
           /\ inbox' \in [Helper -> SUBSET Message]
  <1>1. log[n] \in Entry
    BY ElementOfSeq
  <1> DEFINE e == [log[n] EXCEPT !.try = 2, !.helper = h]
  <1>2. e \in Entry /\ e.told = log[n].told
    <2>1. ASSUME NEW r \in Entry
          PROVE  /\ [r EXCEPT !.try = 2, !.helper = h] \in Entry
                 /\ [r EXCEPT !.try = 2, !.helper = h].told = r.told
      <3>1. [r EXCEPT !.try = 2] \in Entry /\ [r EXCEPT !.try = 2].told = r.told
        BY DEF Entry
      <3>2. ASSUME NEW q \in Entry
            PROVE  [q EXCEPT !.helper = h] \in Entry /\ [q EXCEPT !.helper = h].told = q.told
        BY DEF Entry
      <3> QED BY <3>1, <3>2
    <2> QED BY <1>1, <2>1, Zenon
  <1>3. log' = [log EXCEPT ![n] = e]
    BY DEF SendAgain
  <1> HIDE DEF e
  <1>4. /\ log' \in Seq(Entry) /\ Len(log') = Len(log)
        /\ \A k \in 1 .. Len(log) : log'[k] = IF k = n THEN e ELSE log[k]
    BY <1>2, <1>3, ExceptSeq
  <1>5. [call |-> n, try |-> 2, stage |-> FirstStage(log[n].op)] \in Message
    BY DEF Message, FirstStage, Stage
  <1>6. inbox' \in [Helper -> SUBSET Message]
    BY <1>5 DEF SendAgain
  <1> QED BY <1>2, <1>4, <1>6

\* What the entry makes of an answer: at most the call answered is committed.
LEMMA AnswerKeeps ==
    ASSUME TypeOK, NEW box \in [Helper -> SUBSET Message], NEW h \in Helper,
           NEW n \in Call, NEW try \in 1 .. 2,
           NEW what \in {"committed", "unchanged", "retained", "unconfirmed", "failed"},
           Answer(box, h, n, try, what)
    PROVE  /\ inbox' \in [Helper -> SUBSET Message]
           /\ log' \in Seq(Entry) /\ Len(log') = Len(log)
           /\ known' \in Seen \cup {None}
           /\ \A k \in DOMAIN log' : log'[k].told = "committed" =>
                \/ k \in DOMAIN log /\ log[k].told = "committed"
                \/ k = n /\ what = "committed"
  <1>1. log \in Seq(Entry) /\ DOMAIN log = 1 .. Len(log) /\ Len(log) \in Nat
        /\ known \in Seen \cup {None}
    BY DEF TypeOK
  <1>2. Picture(visible) \in Seen
    BY DEF TypeOK, Document, Picture, Seen
  <1>3. CASE ~Heard(n, try)
    BY <1>1, <1>3 DEF Answer
  <1>4. CASE Heard(n, try)
    <2>1. n \in 1 .. Len(log)
      BY <1>1, <1>4 DEF Heard, Latest, Call
    <2>2. CASE what \in {"committed", "unchanged", "retained"}
      <3>1. Tell(n, what) /\ known' = Picture(visible) /\ inbox' = box
        BY <1>4, <2>2 DEF Answer
      <3>2. what \in Outcome \cup {None, "reading"}
        BY <2>2 DEF Outcome
      <3> QED BY <1>1, <1>2, <2>1, <3>1, <3>2, TellKeeps
    <2>3. CASE what = "unconfirmed" /\ try = 1 /\ Retries(log[n].op) /\ log[n].op # "recover"
      <3>1. SendAgain(box, n, h) /\ known' = known
        BY <1>4, <2>3 DEF Answer
      <3> QED BY <1>1, <2>1, <3>1, SendAgainKeeps
    <2>4. CASE ~(what = "unconfirmed" /\ try = 1 /\ Retries(log[n].op) /\ log[n].op # "recover")
               /\ what \notin {"committed", "unchanged", "retained"}
      <3>1. (Tell(n, "reading") \/ Tell(n, "failed")) /\ known' = known /\ inbox' = box
        <4>1. CASE what = "unconfirmed" /\ log[n].op = "recover"
          <5>1. Tell(n, "reading") /\ inbox' = box /\ UNCHANGED known
            BY <1>4, <2>4, <4>1 DEF Answer, Retries
          <5> QED BY <5>1
        <4>2. CASE ~(what = "unconfirmed" /\ log[n].op = "recover") /\ try = 2
          BY <1>4, <2>4, <4>2 DEF Answer, Tell
        <4>3. CASE ~(what = "unconfirmed" /\ log[n].op = "recover") /\ try = 1
          BY <1>4, <2>4, <4>3 DEF Answer, Retries, Tell
        <4> QED BY <4>1, <4>2, <4>3
      <3> QED BY <1>1, <2>1, <3>1, TellKeeps DEF Outcome
    <2> QED BY <2>2, <2>3, <2>4
  <1> QED BY <1>3, <1>4

-----------------------------------------------------------------------------
\* A step that touches no document, commits no call and at most ends tasks.
LEMMA QuietKeeps ==
    ASSUME StoreInv, TypeOK', NoNewCommitted, UNCHANGED disk,
           \A h \in Helper : task'[h] \in {task[h], None}
    PROVE  StoreInv'
  <1>1. DiskSound'
    BY DEF StoreInv, DiskSound, disk
  <1>2. TasksSound'
    BY DEF StoreInv, TasksSound, TaskSound, disk
  <1>3. ReliedOnIsDurable'
    BY DEF StoreInv, ReliedOnIsDurable, CommittedIsDurable, CleanupIsAfterMigration,
           NoNewCommitted, disk
  <1> QED BY <1>1, <1>2, <1>3 DEF StoreInv

\* The next helper, and the counters, stay in their bounds.
LEMMA BoundsKept ==
    ASSUME TypeOK
    PROVE  /\ current < MaxHelpers => current + 1 \in Helper
           /\ faults < MaxFaults => faults + 1 \in 0 .. MaxFaults
           /\ losses < MaxLosses => losses + 1 \in 0 .. MaxLosses
  BY StoreAssumption DEF TypeOK, Helper

SupervisorSane ==
    /\ alive' \subseteq Helper /\ current' \in Helper
    /\ inbox' \in [Helper -> SUBSET Message] /\ expired' \subseteq Call
    /\ log' \in Seq(Entry) /\ Len(log') <= MaxCalls
    /\ known' \in Seen \cup {None} /\ NoNewCommitted
    /\ faults' \in 0 .. MaxFaults /\ losses' \in 0 .. MaxLosses

\* What the supervisor does changes neither the disk nor a task.
LEMMA SupervisorKeeps ==
    ASSUME StoreInv,
           \/ \E o \in Operation : Issue(o)
           \/ Replace \/ Read \/ ReadAfterAttempts \/ GiveUp \/ DeadlinePasses \/ Restart
    PROVE  StoreInv'
  <1>1. /\ log \in Seq(Entry) /\ DOMAIN log = 1 .. Len(log) /\ Len(log) \in Nat
        /\ Len(log) <= MaxCalls /\ MaxCalls \in Nat
        /\ known \in Seen \cup {None} /\ TypeOK
    BY StoreAssumption DEF StoreInv, TypeOK
  <1>2. UNCHANGED disk /\ UNCHANGED <<lock, task, spent>>
    BY DEF Issue, Replace, Read, ReadAfterAttempts, GiveUp, DeadlinePasses, Restart, helpers
  <1>3. Picture(visible) \in Seen
    BY <1>1 DEF TypeOK, Document, Picture, Seen
  <1>4. SUFFICES SupervisorSane
    <2>1. TypeOK'
      BY <1>1, <1>2 DEF TypeOK, disk, SupervisorSane
    <2> QED BY <1>2, <2>1, QuietKeeps DEF SupervisorSane
  <1>5. Busy => Latest \in 1 .. Len(log) /\ Latest \in Call
    BY <1>1 DEF Busy, Latest, Call
  <1>6. ASSUME log' = log PROVE log' \in Seq(Entry) /\ Len(log') <= MaxCalls /\ NoNewCommitted
    BY <1>1, <1>6 DEF NoNewCommitted
  <1>7. ASSUME Busy, NEW what \in {"reconciling", "failed", "reading"}, Tell(Latest, what)
        PROVE  log' \in Seq(Entry) /\ Len(log') <= MaxCalls /\ NoNewCommitted
    <2>1. what \in Outcome \cup {None, "reading"}
      BY <1>7 DEF Outcome
    <2>2. /\ log' \in Seq(Entry) /\ Len(log') = Len(log)
          /\ \A k \in 1 .. Len(log) :
               log'[k].told = IF k = Latest THEN what ELSE log[k].told
      BY <1>1, <1>5, <1>7, <2>1, TellKeeps
    <2> QED BY <1>1, <2>2 DEF NoNewCommitted
  <1>8. ASSUME NEW o \in Operation, Issue(o)
        PROVE  SupervisorSane
    <2> DEFINE e == [op |-> o, base |-> IF known = None THEN 0 ELSE known.revision,
                     home |-> current, try |-> 1, helper |-> current, told |-> None]
               m == [call |-> Len(log) + 1, try |-> 1, stage |-> FirstStage(o)]
    <2>1. e \in Entry /\ e.told # "committed"
      BY <1>1, NoneIsNoValue DEF Entry, TypeOK, Seen, Revision, Outcome
    <2>2. m \in Message
      BY <1>1, <1>8 DEF Issue, Message, Call, Stage, FirstStage
    <2>3. log' = Append(log, e) /\ inbox' = Sent(inbox, current, m) /\ Len(log) < MaxCalls
          /\ UNCHANGED <<alive, current, known, expired, faults, losses>>
      BY <1>8 DEF Issue, counters
    <2> HIDE DEF e, m
    <2>4. /\ log' \in Seq(Entry) /\ Len(log') = Len(log) + 1
          /\ \A k \in 1 .. Len(log) : log'[k] = log[k]
          /\ log'[Len(log) + 1] = e
      BY <1>1, <2>1, <2>3
    <2>5. DOMAIN log' = 1 .. Len(log) + 1
      BY <2>4
    <2>6. NoNewCommitted
      BY <1>1, <2>1, <2>4, <2>5 DEF NoNewCommitted
    <2>7. inbox' \in [Helper -> SUBSET Message]
      BY <1>1, <2>2, <2>3 DEF Sent, TypeOK
    <2> QED BY <1>1, <2>3, <2>4, <2>6, <2>7 DEF SupervisorSane, TypeOK
  <1>9. CASE Replace
    <2>1. UNCHANGED <<inbox, log, known, expired, losses>>
      BY <1>9 DEF Replace
    <2>2. current' = current + 1 /\ alive' = alive \cup {current'}
          /\ faults' \in {faults, faults + 1} /\ (faults' = faults + 1 => faults < MaxFaults)
          /\ current < MaxHelpers
      BY <1>9 DEF Replace
    <2>3. current' \in Helper /\ faults' \in 0 .. MaxFaults
      BY <1>1, <2>2, BoundsKept DEF TypeOK
    <2> QED BY <1>1, <1>6, <2>1, <2>2, <2>3 DEF SupervisorSane, TypeOK
  <1>10. CASE Read
    BY <1>1, <1>3, <1>6, <1>10 DEF Read, helpers, counters, SupervisorSane, TypeOK
  <1>11. CASE ReadAfterAttempts
    <2>1. Busy /\ UNCHANGED <<alive, inbox, current, expired, faults, losses>>
          /\ known' \in {known, Picture(visible)}
      BY <1>11 DEF ReadAfterAttempts, helpers, counters
    <2>2. Tell(Latest, "reconciling") \/ Tell(Latest, "failed")
      BY <1>11 DEF ReadAfterAttempts
    <2> QED BY <1>1, <1>3, <1>7, <2>1, <2>2 DEF SupervisorSane, TypeOK
  <1>12. CASE GiveUp
    <2>1. Busy /\ UNCHANGED <<known, losses>>
      BY <1>12 DEF GiveUp
    <2>2. expired' \subseteq Call
      BY <1>1, <1>5, <1>12, <2>1 DEF GiveUp, TypeOK
    <2>3. faults' \in 0 .. MaxFaults
      BY <1>1, <1>12, BoundsKept DEF GiveUp, TypeOK
    <2>4. \/ /\ Tell(Latest, "failed") \/ Tell(Latest, "reading")
             /\ UNCHANGED <<current, inbox>>
          \/ /\ SendAgain(inbox, Latest, current + 1)
             /\ current' = current + 1 /\ current + 1 \in Helper
      BY <1>1, <1>12, BoundsKept DEF GiveUp
    <2>5. alive' \in {alive, alive \cup {current'}}
      BY <1>12 DEF GiveUp
    <2>6. CASE (Tell(Latest, "failed") \/ Tell(Latest, "reading")) /\ UNCHANGED <<current, inbox>>
      BY <1>1, <1>7, <2>1, <2>2, <2>3, <2>5, <2>6 DEF SupervisorSane, TypeOK
    <2>7. CASE SendAgain(inbox, Latest, current + 1)
               /\ current' = current + 1 /\ current + 1 \in Helper
      <3>1. /\ log' \in Seq(Entry) /\ Len(log') = Len(log)
            /\ \A k \in 1 .. Len(log) : log'[k].told = log[k].told
            /\ inbox' \in [Helper -> SUBSET Message]
        BY <1>1, <1>5, <2>1, <2>7, SendAgainKeeps DEF TypeOK
      <3>2. NoNewCommitted
        BY <1>1, <3>1 DEF NoNewCommitted
      <3> QED BY <1>1, <2>1, <2>2, <2>3, <2>5, <2>7, <3>1, <3>2 DEF SupervisorSane, TypeOK
    <2> QED BY <2>4, <2>6, <2>7
  <1>13. CASE DeadlinePasses
    BY <1>1, <1>5, <1>6, <1>13 DEF DeadlinePasses, helpers, counters, SupervisorSane, TypeOK
  <1>14. CASE Restart
    <2>1. /\ current' = current + 1 /\ current < MaxHelpers /\ known' = None
          /\ faults < MaxFaults /\ faults' = faults + 1
          /\ alive' = alive \cup {current'} /\ UNCHANGED <<inbox, expired, losses>>
      BY <1>14 DEF Restart, Restarted
    <2>2. log' = log \/ (Busy /\ Tell(Latest, "failed"))
      BY <1>14 DEF Restart, Restarted, Tell
    <2>3. log' \in Seq(Entry) /\ Len(log') <= MaxCalls /\ NoNewCommitted
      BY <1>6, <1>7, <2>2
    <2> QED BY <1>1, <2>1, <2>3, BoundsKept DEF SupervisorSane, TypeOK
  <1> QED BY <1>8, <1>9, <1>10, <1>11, <1>12, <1>13, <1>14

-----------------------------------------------------------------------------
\* The helper with a task is the one that has the lock, and its task is typed.
LEMMA LockedIsTyped ==
    ASSUME TypeOK, NEW h \in Helper
    PROVE  /\ task[h] # None =>
                /\ lock = h /\ task[h] \in Task
                /\ \A g \in Helper \ {h} : task[g] = None
           /\ lock = None => \A g \in Helper : task[g] = None
           /\ None \notin Helper
  <1>1. None \notin Helper
    BY NoneIsNoValue DEF Helper
  <1> QED BY <1>1 DEF TypeOK

\* A helper takes the lock for a document it has reason to write or confirm.
LEMMA HoldKeeps ==
    ASSUME StoreInv, NEW h \in Helper, NEW m \in inbox[h], lock = None,
           NEW step \in {"syncing", "settling", "writing"}, NEW d \in Document,
           Hold(h, m, step, d),
           step = "writing" => Readable(d) /\ Sound(d) /\ Follows(d, visible),
           step = "settling" => Readable(visible)
    PROVE  StoreInv'
  <1> DEFINE t == [call |-> m.call, try |-> m.try, step |-> step, flushed |-> FALSE, doc |-> d]
  <1>1. /\ lock' = h /\ task' = [task EXCEPT ![h] = t] /\ inbox' = Rest(h, m)
        /\ UNCHANGED disk /\ UNCHANGED <<alive, spent, current, log, known, expired>>
        /\ UNCHANGED counters
    BY DEF Hold, entry
  <1>2. TypeOK /\ m \in Message /\ inbox \in [Helper -> SUBSET Message]
        /\ task \in [Helper -> Task \cup {None}]
    BY DEF StoreInv, TypeOK
  <1>3. t \in Task /\ t # None
    <2>1. m.call \in Call /\ m.try \in 1 .. 2 /\ step \in Step /\ FALSE \in BOOLEAN
      BY <1>2 DEF Message, Step
    <2>2. t \in Task
      BY <2>1 DEF Task
    <2> QED BY <2>2, NoneIsNoValue
  <1>4. t.step = step /\ t.doc = d
    OBVIOUS
  <1> HIDE DEF t
  <1>5. inbox' \in [Helper -> SUBSET Message]
    BY <1>1, <1>2 DEF Rest
  <1>6. TypeOK'
    <2>1. \A g \in Helper : (lock' = g) <=> (task'[g] # None)
      BY <1>1, <1>2, <1>3, LockedIsTyped
    <2> QED BY <1>1, <1>2, <1>3, <1>5, <2>1 DEF TypeOK, disk, counters
  <1>7. DiskSound' /\ ReliedOnIsDurable'
    BY <1>1 DEF StoreInv, DiskSound, ReliedOnIsDurable, CommittedIsDurable,
                CleanupIsAfterMigration, disk
  <1>8. TasksSound'
    <2>1. SUFFICES ASSUME NEW g \in Helper, task'[g] # None PROVE TaskSound(g)'
      BY DEF TasksSound, TaskSound
    <2>2. task'[g] = t
      BY <1>1, <1>2, <2>1, LockedIsTyped
    <2> QED BY <1>1, <1>4, <2>2 DEF TaskSound, disk
  <1> QED BY <1>6, <1>7, <1>8 DEF StoreInv

\* A document with one more call, at the next revision.
LEMMA AmendedIs ==
    ASSUME NEW d \in Document, NEW n \in Call
    PROVE  /\ Amended(d, n) \in Document /\ Amended(d, n).format = d.format
           /\ Amended(d, n).revision = d.revision + 1
           /\ Amended(d, n).by = n /\ Amended(d, n).calls = d.calls \cup {n}
  <1> DEFINE a == [d EXCEPT !.revision = d.revision + 1]
             b == [a EXCEPT !.by = n]
             c == [b EXCEPT !.calls = d.calls \cup {n}]
  <1>1. /\ a \in Document /\ a.format = d.format /\ a.revision = d.revision + 1
        /\ a.calls = d.calls
    BY DEF Document, Revision
  <1>2. Amended(d, n) = [a EXCEPT !.by = n, !.calls = d.calls \cup {n}]
    BY <1>1 DEF Amended, Document
  <1> HIDE DEF a
  <1>3. /\ b \in Document /\ b.format = d.format /\ b.revision = d.revision + 1
        /\ b.by = n /\ b.calls = d.calls
    BY <1>1 DEF Document
  <1>4. d.calls \cup {n} \in SUBSET Call
    BY DEF Document
  <1>5. /\ c \in Document /\ c.format = b.format /\ c.revision = b.revision
        /\ c.by = b.by /\ c.calls = d.calls \cup {n}
    BY <1>3, <1>4 DEF Document
  <1>6. Amended(d, n) = c
    BY <1>2
  <1> QED BY <1>3, <1>5, <1>6

\* What is written in place of a document follows from it.
LEMMA WrittenFollows ==
    ASSUME NEW d \in Document, NEW o, NEW n \in Call, NEW base, Sound(d), Accepts(d, o, base)
    PROVE  /\ Written(d, o, n) \in Document
           /\ Readable(Written(d, o, n)) /\ Sound(Written(d, o, n))
           /\ Follows(Written(d, o, n), d)
  <1>1. /\ d.format \in Format /\ d.revision \in Nat /\ d.calls \in SUBSET Call
        /\ d.migration \in Migration /\ d.damage \in {None, "credential", "container"}
    BY DEF Document, Revision
  <1>2. /\ Fresh(n, 1) \in Document /\ Fresh(n, d.revision + 1) \in Document
        /\ \A r \in Nat : /\ Fresh(n, r).format = "v2" /\ Fresh(n, r).calls = {n}
                          /\ Fresh(n, r).by = n
    BY <1>1 DEF Fresh, Document, Format, Migration, Revision
  <1>3. /\ Amended(d, n) \in Document /\ Amended(d, n).format = d.format
        /\ Amended(d, n).revision = d.revision + 1
        /\ Amended(d, n).by = n /\ Amended(d, n).calls = d.calls \cup {n}
    BY AmendedIs
  <1>4. CASE o = "recover"
    BY <1>1, <1>2, <1>4 DEF Written, Accepts, Discards, Readable, Sound, Follows
  <1>5. CASE o = "initialize"
    BY <1>1, <1>2, <1>5 DEF Written, Accepts, Readable, Sound, Follows
  <1>6. CASE o = "migrate"
    <2>1. Written(d, o, n) = [Amended(d, n) EXCEPT !.format = "v2", !.migration = "pending"]
      BY <1>6 DEF Written, Migrated
    <2> DEFINE v == [Amended(d, n) EXCEPT !.format = "v2"]
               w == [v EXCEPT !.migration = "pending"]
    <2>2. /\ v \in Document /\ v.format = "v2" /\ v.revision = d.revision + 1
          /\ v.by = n /\ v.calls = d.calls \cup {n}
      <3>1. ASSUME NEW a \in Document, NEW f \in Format
            PROVE  /\ [a EXCEPT !.format = f] \in Document
                   /\ [a EXCEPT !.format = f].format = f
                   /\ [a EXCEPT !.format = f].revision = a.revision
                   /\ [a EXCEPT !.format = f].by = a.by
                   /\ [a EXCEPT !.format = f].calls = a.calls
        BY DEF Document
      <3>2. "v2" \in Format
        BY DEF Format
      <3> HIDE DEF v
      <3>3. v = [Amended(d, n) EXCEPT !.format = "v2"]
        BY DEF v
      <3> QED BY <1>3, <3>1, <3>2, <3>3
    <2>3. Written(d, o, n) = w
      BY <2>1
    <2> HIDE DEF v
    <2>4. /\ w \in Document /\ w.format = v.format /\ w.revision = v.revision
          /\ w.by = v.by /\ w.calls = v.calls
      BY <2>2 DEF Document, Migration
    <2> QED BY <1>3, <2>2, <2>3, <2>4 DEF Readable, Sound, Follows
  <1>7. CASE o = "save"
    <2>1. Written(d, o, n) = [Amended(d, n) EXCEPT !.damage = IF @ = "credential" THEN None ELSE @]
      BY <1>7 DEF Written, Saved
    <2>2. ASSUME NEW a \in Document
          PROVE  LET w == [a EXCEPT !.damage = IF @ = "credential" THEN None ELSE @]
                 IN  /\ w \in Document /\ w.format = a.format /\ w.revision = a.revision
                     /\ w.by = a.by /\ w.calls = a.calls
      BY DEF Document
    <2>3. d.format = "v2"
      BY <1>7 DEF Accepts, Readable
    <2> QED BY <1>3, <2>1, <2>2, <2>3 DEF Readable, Sound, Follows
  <1>8. CASE o \notin {"recover", "initialize", "migrate", "save"}
    <2>1. Written(d, o, n) = Amended(d, n)
      BY <1>8 DEF Written
    <2>2. d.format = "v2"
      BY <1>8 DEF Accepts, Readable
    <2> QED BY <1>3, <2>1, <2>2 DEF Readable, Sound, Follows
  <1> QED BY <1>4, <1>5, <1>6, <1>7, <1>8

\* What a helper does with a message it was sent.
LEMMA MessageKeeps ==
    ASSUME StoreInv, NEW h \in Helper, NEW m \in inbox[h],
           \/ BeginConfirming(h, m) \/ BeginCleanup(h, m) \/ OpenFrame(h, m)
           \/ BeginWriting(h, m) \/ Refuse(h, m) \/ LockTimesOut(h, m)
    PROVE  StoreInv'
  <1>1. /\ TypeOK /\ visible \in Document /\ m \in Message /\ m.call \in Call
        /\ m.try \in 1 .. 2 /\ inbox \in [Helper -> SUBSET Message]
        /\ Rest(h, m) \in [Helper -> SUBSET Message]
    BY DEF StoreInv, TypeOK, Message, Rest
  <1>2. CASE BeginConfirming(h, m)
    BY <1>1, <1>2, HoldKeeps DEF BeginConfirming
  <1>3. CASE BeginCleanup(h, m)
    BY <1>1, <1>3, HoldKeeps DEF BeginCleanup, Settles
  <1>4. CASE BeginWriting(h, m)
    <2> DEFINE d == Written(visible, Operates(m), m.call)
    <2>1. d \in Document /\ Readable(d) /\ Sound(d) /\ Follows(d, visible)
      BY <1>1, <1>4, WrittenFollows DEF BeginWriting, Replaces, StoreInv, DiskSound
    <2> QED BY <1>1, <1>4, <2>1, HoldKeeps DEF BeginWriting
  <1>5. CASE OpenFrame(h, m)
    <2>1. [m EXCEPT !.stage = "store"] \in Message
      BY <1>1 DEF Message, Stage
    <2>2. inbox' \in [Helper -> SUBSET Message] /\ spent' \subseteq Call
      BY <1>1, <1>5, <2>1 DEF OpenFrame, TypeOK
    <2>3. UNCHANGED disk /\ UNCHANGED entry /\ UNCHANGED <<lock, alive, task>>
          /\ UNCHANGED counters
      BY <1>5 DEF OpenFrame
    <2>4. TypeOK'
      BY <1>1, <2>2, <2>3 DEF TypeOK, disk, entry, counters
    <2>5. NoNewCommitted
      BY <2>3 DEF NoNewCommitted, entry
    <2> QED BY <2>3, <2>4, <2>5, QuietKeeps
  <1>6. ASSUME NEW what \in {"unchanged", "retained", "failed"},
               Answer(Rest(h, m), h, m.call, m.try, what),
               UNCHANGED disk, UNCHANGED <<lock, alive, task, spent, current, expired, losses>>,
               faults' \in 0 .. MaxFaults
        PROVE  StoreInv'
    <2>1. /\ inbox' \in [Helper -> SUBSET Message]
          /\ log' \in Seq(Entry) /\ Len(log') = Len(log)
          /\ known' \in Seen \cup {None} /\ NoNewCommitted
      BY <1>1, <1>6, AnswerKeeps DEF NoNewCommitted
    <2>2. TypeOK'
      BY <1>1, <1>6, <2>1 DEF TypeOK, disk
    <2> QED BY <1>6, <2>1, <2>2, QuietKeeps
  <1>7. CASE Refuse(h, m)
    <2>1. Refusal(visible, Operates(m)) \in {"unchanged", "retained", "failed"}
      BY DEF Refusal
    <2> QED BY <1>1, <1>6, <1>7, <2>1 DEF Refuse, counters, TypeOK
  <1>8. CASE LockTimesOut(h, m)
    BY <1>1, <1>6, <1>8, BoundsKept DEF LockTimesOut
  <1> QED BY <1>2, <1>3, <1>4, <1>5, <1>7, <1>8

-----------------------------------------------------------------------------
\* A task that goes on under the lock, with the disk as it was.
LEMMA ProceedKeeps ==
    ASSUME StoreInv, NEW h \in Helper, task[h] # None, NEW t \in Task,
           Proceed(h, t), UNCHANGED <<lock, alive, inbox, spent>>,
           UNCHANGED entry, UNCHANGED counters
    PROVE  /\ visible' \in Document /\ outcomes' \subseteq Document
              /\ flushed' \in BOOLEAN /\ swept' \in BOOLEAN => TypeOK'
           /\ task'[h] = t /\ \A g \in Helper \ {h} : task'[g] = None
  <1>1. TypeOK /\ task \in [Helper -> Task \cup {None}] /\ t # None
    BY NoneIsNoValue DEF StoreInv, TypeOK
  <1>2. task' = [task EXCEPT ![h] = t]
    BY DEF Proceed
  <1>3. task'[h] = t /\ \A g \in Helper \ {h} : task'[g] = None
    BY <1>1, <1>2, LockedIsTyped
  <1>4. \A g \in Helper : (lock' = g) <=> (task'[g] # None)
    BY <1>1, <1>2, LockedIsTyped
  <1> QED BY <1>1, <1>2, <1>3, <1>4 DEF TypeOK, entry, counters

\* The document is on disk before its name is.
LEMMA FlushKeeps ==
    ASSUME StoreInv, NEW h \in Helper, Flush(h)
    PROVE  StoreInv'
  <1>1. /\ task[h] # None /\ task[h].step = "writing" /\ task[h] \in Task
        /\ Readable(task[h].doc) /\ Sound(task[h].doc) /\ Follows(task[h].doc, visible)
    BY LockedIsTyped DEF Flush, At, StoreInv, TasksSound, TaskSound
  <1> DEFINE t == Flushed(task[h])
  <1>2. t \in Task /\ t.step = "flushed" /\ t.flushed /\ t.doc = task[h].doc
    BY <1>1 DEF Flushed, Task, Step
  <1>3. Proceed(h, t) /\ UNCHANGED disk /\ UNCHANGED <<lock, alive, inbox, spent>>
        /\ UNCHANGED entry /\ UNCHANGED counters
    BY DEF Flush
  <1> HIDE DEF t
  <1>4. TypeOK' /\ task'[h] = t /\ \A g \in Helper \ {h} : task'[g] = None
    BY <1>1, <1>2, <1>3, ProceedKeeps DEF StoreInv, TypeOK, disk
  <1>5. DiskSound' /\ ReliedOnIsDurable'
    BY <1>3 DEF StoreInv, DiskSound, ReliedOnIsDurable, CommittedIsDurable,
                CleanupIsAfterMigration, disk, entry
  <1>6. TasksSound'
    BY <1>1, <1>2, <1>3, <1>4 DEF TasksSound, TaskSound, disk
  <1> QED BY <1>4, <1>5, <1>6 DEF StoreInv

\* The rename: the new document is one more that a loss of power may leave, and
\* everything committed is in it.
LEMMA RenameKeeps ==
    ASSUME StoreInv, NEW h \in Helper, Rename(h)
    PROVE  StoreInv' /\ Follows(visible', visible)
  <1>1. /\ task[h] # None /\ task[h].step = "flushed" /\ task[h] \in Task
        /\ task[h].flushed /\ task[h].doc \in Document
        /\ Readable(task[h].doc) /\ Sound(task[h].doc) /\ Follows(task[h].doc, visible)
    BY LockedIsTyped DEF Rename, At, StoreInv, TasksSound, TaskSound, Task
  <1> DEFINE t == [task[h] EXCEPT !.step = "renamed"]
  <1>2. t \in Task /\ t.step = "renamed"
    BY <1>1 DEF Task, Step
  <1>3. /\ visible' = task[h].doc /\ flushed' /\ outcomes' = outcomes \cup {visible'}
        /\ flushed' \in BOOLEAN /\ swept' = swept
        /\ Proceed(h, t) /\ UNCHANGED <<lock, alive, inbox, spent>>
        /\ UNCHANGED entry /\ UNCHANGED counters
    BY <1>1 DEF Rename
  <1> HIDE DEF t
  <1>4. TypeOK' /\ task'[h] = t /\ \A g \in Helper \ {h} : task'[g] = None
    BY <1>1, <1>2, <1>3, ProceedKeeps DEF StoreInv, TypeOK
  <1>5. DiskSound'
    BY <1>1, <1>3 DEF StoreInv, DiskSound
  <1>6. TasksSound'
    BY <1>2, <1>4 DEF TasksSound, TaskSound
  <1>7. visible.calls \subseteq visible'.calls
    BY <1>1, <1>3 DEF StoreInv, DiskSound, Follows, Sound
  <1>8. CommittedIsDurable'
    <2>1. visible \in outcomes
      BY DEF StoreInv, DiskSound
    <2> QED
      BY <1>3, <1>7, <2>1 DEF StoreInv, ReliedOnIsDurable, CommittedIsDurable, entry
  <1>9. CleanupIsAfterMigration'
    BY <1>1, <1>3 DEF StoreInv, ReliedOnIsDurable, CleanupIsAfterMigration
  <1> QED BY <1>1, <1>3, <1>4, <1>5, <1>6, <1>8, <1>9 DEF StoreInv, ReliedOnIsDurable

\* The directory is synchronised: the visible document is the only outcome.
LEMMA SyncKeeps ==
    ASSUME StoreInv, NEW h \in Helper, task[h] # None, outcomes' = {Durable},
           UNCHANGED <<visible, flushed>>
    PROVE  /\ outcomes' = {visible} /\ outcomes' \subseteq Document /\ DiskSound'
           /\ \A n \in DOMAIN log :
                log[n].told = "committed" => \A d \in outcomes' : n \in d.calls
  <1>1. Durable = visible /\ visible \in outcomes /\ visible \in Document
    BY DEF StoreInv, DiskSound, Durable, TypeOK
  <1> QED
    BY <1>1 DEF StoreInv, DiskSound, ReliedOnIsDurable, CommittedIsDurable, TypeOK

\* A task that ends with an answer after the directory was synchronised.  What
\* is answered "committed" is in the visible document.
LEMMA SyncedAnswerKeeps ==
    ASSUME StoreInv, NEW h \in Helper, task[h] # None, outcomes' = {Durable},
           UNCHANGED <<visible, flushed, alive, spent, current, expired>>,
           UNCHANGED counters, Unlock(h),
           swept' \in BOOLEAN, swept' => swept \/ Readable(visible),
           NEW what \in {"committed", "unchanged"},
           what = "committed" => visible.by = task[h].call,
           Answer(inbox, h, task[h].call, task[h].try, what)
    PROVE  StoreInv'
  <1>1. TypeOK /\ task[h] \in Task /\ task[h].call \in Call /\ task[h].try \in 1 .. 2
        /\ inbox \in [Helper -> SUBSET Message]
        /\ task \in [Helper -> Task \cup {None}]
    BY LockedIsTyped DEF StoreInv, TypeOK, Task
  <1>2. /\ outcomes' = {visible} /\ outcomes' \subseteq Document /\ DiskSound'
        /\ \A n \in DOMAIN log :
             log[n].told = "committed" => \A d \in outcomes' : n \in d.calls
    BY SyncKeeps
  <1>3. /\ inbox' \in [Helper -> SUBSET Message]
        /\ log' \in Seq(Entry) /\ Len(log') = Len(log)
        /\ known' \in Seen \cup {None}
        /\ \A k \in DOMAIN log' : log'[k].told = "committed" =>
             \/ k \in DOMAIN log /\ log[k].told = "committed"
             \/ k = task[h].call /\ what = "committed"
    BY <1>1, AnswerKeeps
  <1>4. lock' = None /\ task' = [task EXCEPT ![h] = None]
    BY DEF Unlock
  <1>5. \A g \in Helper : task'[g] = None
    BY <1>1, <1>4, LockedIsTyped
  <1>6. TypeOK'
    <2>1. \A g \in Helper : (lock' = g) <=> (task'[g] # None)
      BY <1>1, <1>4, <1>5, LockedIsTyped
    <2> QED BY <1>1, <1>2, <1>3, <1>4, <2>1 DEF TypeOK, counters
  <1>7. TasksSound'
    BY <1>5 DEF TasksSound, TaskSound
  <1>8. CommittedIsDurable'
    <2>1. what = "committed" => task[h].call \in visible.calls
      <3>1. visible.by # None => visible.by \in visible.calls
        BY DEF StoreInv, DiskSound, Sound
      <3>2. task[h].call # None
        BY <1>1, NoneIsNoValue DEF Call
      <3> QED BY <3>1, <3>2
    <2> QED BY <1>2, <1>3, <2>1 DEF CommittedIsDurable
  <1>9. CleanupIsAfterMigration'
    <2>1. swept => Readable(visible)
      BY DEF StoreInv, DiskSound, ReliedOnIsDurable, CleanupIsAfterMigration
    <2> QED BY <1>2, <2>1 DEF CleanupIsAfterMigration
  <1> QED BY <1>2, <1>6, <1>7, <1>8, <1>9 DEF StoreInv, ReliedOnIsDurable

\* A confirmation, and a cleanup that stores nothing.
LEMMA EndingKeeps ==
    ASSUME StoreInv, NEW h \in Helper, Confirm(h) \/ SweepNothing(h)
    PROVE  StoreInv'
  <1>1. task[h] # None
    BY DEF Confirm, SweepNothing, At
  <1>2. CASE Confirm(h)
    <2>1. \E what \in {"committed", "unchanged"} :
             /\ what = "committed" => visible.by = task[h].call
             /\ Answer(inbox, h, task[h].call, task[h].try, what)
      BY <1>2 DEF Confirm
    <2>2. /\ outcomes' = {Durable} /\ UNCHANGED <<visible, flushed, alive, spent, current, expired>>
          /\ UNCHANGED counters /\ Unlock(h) /\ swept' = swept /\ swept \in BOOLEAN
      BY <1>2 DEF Confirm, SyncDirectory, StoreInv, TypeOK
    <2> QED BY <1>1, <2>1, <2>2, SyncedAnswerKeeps
  <1>3. CASE SweepNothing(h)
    <2>1. Readable(visible)
      BY <1>3 DEF SweepNothing, At, StoreInv, TasksSound, TaskSound
    <2>2. /\ outcomes' = {Durable} /\ UNCHANGED <<visible, flushed, alive, spent, current, expired>>
          /\ UNCHANGED counters /\ Unlock(h) /\ swept' \in BOOLEAN
          /\ Answer(inbox, h, task[h].call, task[h].try, "unchanged")
      BY <1>3 DEF SweepNothing, SyncBeforeSweep, StoreInv, TypeOK
    <2> QED BY <1>1, <2>1, <2>2, SyncedAnswerKeeps
  <1> QED BY <1>2, <1>3

\* A cleanup removes files once the migrated document is certain, and goes on to
\* store how far it came.
LEMMA SweepKeeps ==
    ASSUME StoreInv, NEW h \in Helper, NEW all \in BOOLEAN, Sweep(h, all)
    PROVE  StoreInv'
  <1>1. /\ task[h] # None /\ task[h].step = "settling" /\ task[h] \in Task
        /\ Readable(visible) /\ visible \in Document /\ Sound(visible) /\ TypeOK
    BY LockedIsTyped DEF Sweep, At, StoreInv, TasksSound, TaskSound, DiskSound, TypeOK
  <1> DEFINE d == Swept(visible, task[h].call, all)
             t == [task[h] EXCEPT !.step = "writing", !.doc = d]
  <1>2. task[h].call \in Call
    BY <1>1 DEF Task
  <1>3. d \in Document /\ Readable(d) /\ Sound(d) /\ Follows(d, visible)
    <2>1. /\ Amended(visible, task[h].call) \in Document
          /\ Amended(visible, task[h].call).format = "v2"
          /\ Amended(visible, task[h].call).revision = visible.revision + 1
          /\ Amended(visible, task[h].call).by = task[h].call
          /\ Amended(visible, task[h].call).calls = visible.calls \cup {task[h].call}
      BY <1>1, <1>2, AmendedIs DEF Readable
    <2>2. ASSUME NEW a \in Document
          PROVE  LET w == [a EXCEPT !.migration = IF all THEN "clean" ELSE "pending"]
                 IN  /\ w \in Document /\ w.format = a.format /\ w.revision = a.revision
                     /\ w.by = a.by /\ w.calls = a.calls
      BY DEF Document, Migration
    <2> QED BY <2>1, <2>2 DEF Swept, Readable, Sound, Follows
  <1> HIDE DEF d
  <1>4. t \in Task /\ t.step = "writing" /\ t.doc = d
    BY <1>1, <1>3 DEF Task, Step
  <1>5. /\ outcomes' = {Durable} /\ UNCHANGED <<visible, flushed>> /\ swept' = TRUE
        /\ Proceed(h, t) /\ UNCHANGED <<lock, alive, inbox, spent>>
        /\ UNCHANGED entry /\ UNCHANGED counters
    BY DEF Sweep, SyncBeforeSweep, d
  <1> HIDE DEF t
  <1>6. /\ outcomes' = {visible} /\ outcomes' \subseteq Document /\ DiskSound'
        /\ \A n \in DOMAIN log :
             log[n].told = "committed" => \A o \in outcomes' : n \in o.calls
    BY <1>1, <1>5, SyncKeeps
  <1>7. TypeOK' /\ task'[h] = t /\ \A g \in Helper \ {h} : task'[g] = None
    BY <1>1, <1>4, <1>5, <1>6, ProceedKeeps DEF TypeOK
  <1>8. TasksSound'
    BY <1>3, <1>4, <1>5, <1>7 DEF TasksSound, TaskSound
  <1>9. ReliedOnIsDurable'
    BY <1>1, <1>5, <1>6 DEF ReliedOnIsDurable, CommittedIsDurable, CleanupIsAfterMigration, entry
  <1> QED BY <1>6, <1>7, <1>8, <1>9 DEF StoreInv

\* A step that fails ends the task; nothing is answered "committed" by it.
LEMMA FailureKeeps ==
    ASSUME StoreInv, NEW h \in Helper, StepFails(h)
    PROVE  StoreInv'
  <1>1. TypeOK /\ task[h] # None /\ task[h] \in Task /\ task[h].call \in Call
        /\ task[h].try \in 1 .. 2 /\ inbox \in [Helper -> SUBSET Message]
        /\ task \in [Helper -> Task \cup {None}]
    BY LockedIsTyped DEF StepFails, StoreInv, TypeOK, Task
  <1>2. Failure(task[h]) \in {"unconfirmed", "failed"}
    BY DEF Failure
  <1>3. Answer(inbox, h, task[h].call, task[h].try, Failure(task[h]))
        /\ lock' = None /\ task' = [task EXCEPT ![h] = None] /\ UNCHANGED disk
        /\ UNCHANGED <<alive, spent, current, expired, losses>>
    BY DEF StepFails, Unlock
  <1>4. /\ inbox' \in [Helper -> SUBSET Message]
        /\ log' \in Seq(Entry) /\ Len(log') = Len(log)
        /\ known' \in Seen \cup {None} /\ NoNewCommitted
    BY <1>1, <1>2, <1>3, AnswerKeeps DEF NoNewCommitted
  <1>5. faults' \in 0 .. MaxFaults
    BY <1>1, BoundsKept DEF StepFails, TypeOK
  <1>6. \A g \in Helper : task'[g] = None
    BY <1>1, <1>3, LockedIsTyped
  <1>7. TypeOK'
    <2>1. \A g \in Helper : (lock' = g) <=> (task'[g] # None)
      BY <1>1, <1>3, <1>6, LockedIsTyped
    <2> QED BY <1>1, <1>3, <1>4, <1>5, <1>6, <2>1 DEF TypeOK, disk
  <1> QED BY <1>3, <1>4, <1>6, <1>7, QuietKeeps

\* A helper that dies leaves the lock, and takes its task and messages with it.
LEMMA DeathKeeps ==
    ASSUME StoreInv, NEW h \in Helper, Die(h)
    PROVE  StoreInv'
  <1>1. TypeOK /\ inbox \in [Helper -> SUBSET Message] /\ alive \subseteq Helper
        /\ task \in [Helper -> Task \cup {None}] /\ None \notin Helper
    BY LockedIsTyped DEF StoreInv, TypeOK
  <1>2. /\ alive' = alive \ {h} /\ lock' = IF lock = h THEN None ELSE lock
        /\ task' = [g \in Helper |-> IF g = h THEN None ELSE task[g]]
        /\ inbox' = [g \in Helper |-> IF g = h THEN {} ELSE inbox[g]]
        /\ UNCHANGED disk /\ UNCHANGED <<spent, losses>> /\ UNCHANGED entry
        /\ faults < MaxFaults /\ faults' = faults + 1
    BY DEF Die, Gone
  <1>3. TypeOK'
    <2>1. inbox' \in [Helper -> SUBSET Message] /\ task' \in [Helper -> Task \cup {None}]
      BY <1>1, <1>2
    <2>2. \A g \in Helper : (lock' = g) <=> (task'[g] # None)
      BY <1>1, <1>2 DEF TypeOK
    <2>3. lock' \in Helper \cup {None}
      BY <1>1, <1>2 DEF TypeOK
    <2> QED BY <1>1, <1>2, <2>1, <2>2, <2>3, BoundsKept DEF TypeOK, disk, entry
  <1>4. NoNewCommitted /\ \A g \in Helper : task'[g] \in {task[g], None}
    BY <1>2 DEF NoNewCommitted, entry
  <1> QED BY <1>2, <1>3, <1>4, QuietKeeps

\* Power is lost: what remains is one of the documents that contain everything.
LEMMA LossKeeps ==
    ASSUME StoreInv, LosePower
    PROVE  StoreInv'
  <1>1. TypeOK /\ log \in Seq(Entry) /\ Len(log) \in Nat /\ DOMAIN log = 1 .. Len(log)
    BY DEF StoreInv, TypeOK
  <1>2. /\ losses < MaxLosses /\ losses' = losses + 1
        /\ visible' \in outcomes /\ outcomes' = {visible'} /\ flushed' = TRUE
        /\ current < MaxHelpers /\ current' = current + 1 /\ known' = None
        /\ lock' = None /\ alive' = {current'}
        /\ task' = [h \in Helper |-> None] /\ inbox' = [h \in Helper |-> {}]
        /\ UNCHANGED <<swept, spent, expired, faults>>
    BY DEF LosePower, Restarted
  <1>3. log' \in Seq(Entry) /\ Len(log') = Len(log) /\ NoNewCommitted
    <2>1. log' = log \/ (Busy /\ Tell(Latest, "failed"))
      BY DEF LosePower, Restarted, Tell
    <2>2. Busy => Latest \in 1 .. Len(log)
      BY <1>1 DEF Busy, Latest
    <2> QED BY <1>1, <2>1, <2>2, TellKeeps DEF NoNewCommitted, Outcome
  <1>4. TypeOK'
    <2>1. current' \in Helper /\ losses' \in 0 .. MaxLosses /\ None \notin Helper
      BY <1>1, <1>2, BoundsKept, NoneIsNoValue DEF Helper
    <2>2. visible' \in Document /\ outcomes' \subseteq Document
      BY <1>1, <1>2 DEF TypeOK
    <2> QED BY <1>1, <1>2, <1>3, <2>1, <2>2 DEF TypeOK
  <1>5. DiskSound' /\ TasksSound'
    BY <1>2 DEF StoreInv, DiskSound, TasksSound, TaskSound
  <1>6. ReliedOnIsDurable'
    BY <1>2, <1>3 DEF StoreInv, ReliedOnIsDurable, CommittedIsDurable,
                      CleanupIsAfterMigration, NoNewCommitted
  <1> QED BY <1>4, <1>5, <1>6 DEF StoreInv

-----------------------------------------------------------------------------
\* At the start the document is whatever an earlier version left.
LEMMA InitSound == Init => StoreInv
  <1> SUFFICES ASSUME Init PROVE StoreInv
    OBVIOUS
  <1>1. \A f \in Format, r \in Nat, w \in {None, "credential", "container"} :
           Blank(f, r, w) \in Document /\ Blank(f, r, w).calls = {} /\ Blank(f, r, w).by = None
    BY DEF Blank, Document, Migration, Revision
  <1>2. Torn \in Document /\ Torn.calls = {} /\ Torn.by = None
    BY DEF Torn, Document, Migration, Revision, Format
  <1>3. visible \in Document /\ Sound(visible)
    BY <1>1, <1>2 DEF Init, Format, Sound
  <1>4. 1 \in Helper /\ None \notin Helper
    BY StoreAssumption, NoneIsNoValue DEF Helper
  <1>5. TypeOK
    <2>1. /\ outcomes \subseteq Document /\ flushed \in BOOLEAN /\ swept \in BOOLEAN
          /\ alive \subseteq Helper /\ current \in Helper /\ spent = {} /\ expired = {}
          /\ lock = None /\ known = None
      BY <1>3, <1>4 DEF Init
    <2>2. /\ inbox \in [Helper -> SUBSET Message] /\ task \in [Helper -> Task \cup {None}]
          /\ \A h \in Helper : task[h] = None
      BY DEF Init
    <2>3. /\ log \in Seq(Entry) /\ Len(log) = 0
          /\ faults \in 0 .. MaxFaults /\ losses \in 0 .. MaxLosses /\ MaxCalls \in Nat
      BY StoreAssumption DEF Init
    <2> QED BY <1>3, <1>4, <2>1, <2>2, <2>3 DEF TypeOK
  <1>6. DiskSound /\ TasksSound /\ ReliedOnIsDurable
    BY <1>3 DEF Init, DiskSound, TasksSound, TaskSound, ReliedOnIsDurable,
                CommittedIsDurable, CleanupIsAfterMigration
  <1> QED BY <1>5, <1>6 DEF StoreInv

\* What a step may do to the visible document while the power is on.
FollowsUnlessLost == visible' # visible /\ losses' = losses => Follows(visible', visible)

\* The invariant is inductive, and the visible document is only ever followed.
LEMMA StepsKeep == StoreInv /\ [Next]_vars => StoreInv' /\ FollowsUnlessLost
  <1> SUFFICES ASSUME StoreInv, [Next]_vars PROVE StoreInv' /\ FollowsUnlessLost
    OBVIOUS
  <1>1. CASE \/ \E o \in Operation : Issue(o)
             \/ Replace \/ Read \/ ReadAfterAttempts \/ GiveUp \/ DeadlinePasses \/ Restart
    <2>1. visible' = visible
      BY <1>1 DEF Issue, Replace, Read, ReadAfterAttempts, GiveUp, DeadlinePasses, Restart, disk
    <2> QED BY <1>1, <2>1, SupervisorKeeps DEF FollowsUnlessLost
  <1>2. ASSUME NEW h \in Helper, NEW m \in inbox[h],
               \/ BeginConfirming(h, m) \/ BeginCleanup(h, m) \/ OpenFrame(h, m)
               \/ BeginWriting(h, m) \/ Refuse(h, m) \/ LockTimesOut(h, m)
        PROVE  StoreInv' /\ FollowsUnlessLost
    <2>1. visible' = visible
      BY <1>2 DEF BeginConfirming, BeginCleanup, OpenFrame, BeginWriting, Refuse,
                  LockTimesOut, Hold, disk
    <2> QED BY <1>2, <2>1, MessageKeeps DEF FollowsUnlessLost
  <1>3. ASSUME NEW h \in Helper,
               \/ SweepNothing(h) \/ \E all \in BOOLEAN : Sweep(h, all)
               \/ Flush(h) \/ Confirm(h) \/ StepFails(h) \/ Die(h)
        PROVE  StoreInv' /\ FollowsUnlessLost
    <2>1. visible' = visible
      <3>1. CASE SweepNothing(h)
        BY <3>1, Zenon DEF SweepNothing
      <3>4. CASE \E all \in BOOLEAN : Sweep(h, all)
        BY <3>4, Zenon DEF Sweep
      <3>2. CASE Confirm(h)
        BY <3>2 DEF Confirm
      <3>3. CASE Flush(h) \/ StepFails(h) \/ Die(h)
        BY <3>3 DEF Flush, StepFails, Die, disk
      <3> QED BY <1>3, <3>1, <3>2, <3>3, <3>4
    <2> QED
      BY <1>3, <2>1, EndingKeeps, SweepKeeps, FlushKeeps, FailureKeeps, DeathKeeps
      DEF FollowsUnlessLost
  <1>4. CASE \E h \in Helper : Rename(h)
    BY <1>4, RenameKeeps DEF FollowsUnlessLost
  <1>5. CASE LosePower
    <2>1. losses' # losses
      BY <1>5 DEF LosePower, StoreInv, TypeOK
    <2> QED BY <1>5, <2>1, LossKeeps DEF FollowsUnlessLost
  <1>6. CASE UNCHANGED vars
    <2>1. UNCHANGED disk /\ UNCHANGED helpers /\ UNCHANGED entry /\ UNCHANGED counters
      BY <1>6 DEF vars
    <2>2. TypeOK' /\ NoNewCommitted
      BY <2>1 DEF StoreInv, TypeOK, NoNewCommitted, disk, helpers, entry, counters
    <2>3. \A h \in Helper : task'[h] \in {task[h], None}
      BY <2>1 DEF helpers
    <2>4. visible' = visible
      BY <2>1 DEF disk
    <2> QED BY <2>1, <2>2, <2>3, <2>4, QuietKeeps DEF FollowsUnlessLost
  <1> QED BY <1>1, <1>2, <1>3, <1>4, <1>5, <1>6 DEF Next

\* Every variable keeps its type, and the helper with a task is the one that
\* has the file lock.
THEOREM StoreIsTyped == Spec => []TypeOK
  <1>1. StoreInv => TypeOK
    BY DEF StoreInv
  <1>2. StoreInv /\ [Next]_vars => StoreInv'
    BY StepsKeep
  <1> QED BY <1>1, <1>2, InitSound, PTL DEF Spec

\* A call answered "committed" is in every document a loss of power may leave,
\* and legacy files are removed only when the legacy document cannot come back.
THEOREM ReliedOnStays == Spec => []ReliedOnIsDurable
  <1>1. StoreInv => ReliedOnIsDurable
    BY DEF StoreInv
  <1>2. StoreInv /\ [Next]_vars => StoreInv'
    BY StepsKeep
  <1> QED BY <1>1, <1>2, InitSound, PTL DEF Spec

\* No helper, late or given up or trying again, replaces a readable document by
\* one that does not contain all of its calls at the next revision.
THEOREM NothingReadableIsLost == Spec => NothingIsLost
  <1>1. StoreInv /\ [Next]_vars => StoreInv'
    BY StepsKeep
  <1>2. StoreInv /\ [Next]_vars =>
          [visible' # visible /\ losses' = losses =>
             \/ visible.format \in {"missing", "torn"}
             \/ visible.calls \subseteq visible'.calls
                /\ visible'.revision = visible.revision + 1]_vars
    BY StepsKeep DEF FollowsUnlessLost, Follows
  <1> QED BY <1>1, <1>2, InitSound, PTL DEF Spec, NothingIsLost
=============================================================================
