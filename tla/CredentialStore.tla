-------------------------- MODULE CredentialStore --------------------------
(***************************************************************************)
(* The profile document on disk: the transport helpers that read and       *)
(* replace it under a file lock, and the global entry that calls them.     *)
(*                                                                         *)
(* The supervisor gives a helper up when it does not answer in time and    *)
(* starts another; the one given up may still carry out what it was sent.  *)
(* The global entry has one call at a time (ProfileActivation orders them) *)
(* and calls of an earlier entry may still be under way in a helper.       *)
(*                                                                         *)
(* A document is known by the calls it contains.  A rename is on disk for  *)
(* certain only once the directory is synchronised: "outcomes" is what a   *)
(* loss of power may leave.                                                *)
(***************************************************************************)
EXTENDS Naturals, Sequences

CONSTANTS
    MaxHelpers,   \* bound: helpers started, one after the other
    MaxCalls,     \* bound: calls of the global entry
    MaxFaults,    \* bound: I/O errors, calls given up and helpers that die
    MaxLosses,    \* bound: losses of power
    None

ASSUME StoreAssumption ==
    /\ MaxHelpers \in Nat \ {0}
    /\ {MaxCalls, MaxFaults, MaxLosses} \subseteq Nat

Helper == 1 .. MaxHelpers
Call == 1 .. MaxCalls
Revision == Nat

Operation ==
    {"recover", "open", "initialize", "migrate", "cleanup", "commit", "save"}

\* "by" is the receipt; a receipt's base revision is the revision before.
\* "calls" is not stored: all calls the document results from.
Format == {"missing", "torn", "legacy", "v2"}
Migration == {None, "pending", "clean"}
Document ==
    [format : Format, revision : Revision, by : Call \cup {None}, calls : SUBSET Call,
     migration : Migration, damage : {None, "credential", "container"}]

Torn ==
    [format |-> "torn", revision |-> 0, by |-> None, calls |-> {}, migration |-> None,
     damage |-> None]

Outcome == {"committed", "unchanged", "retained", "unconfirmed", "reconciling",
            "failed"}

VARIABLES
    visible,    \* the document credentials.json names
    outcomes,   \* the documents a loss of power may leave
    flushed,    \* the content of the visible document is on disk
    swept,      \* files of the legacy version were removed
    lock,       \* helper that holds .credentials.lock
    alive,      \* helpers that run
    current,    \* the helper the supervisor uses
    inbox,      \* what each helper was sent and has not begun
    task,       \* what each helper does under the lock
    spent,      \* saves whose sealed frame was opened
    log,        \* calls of the global entry, in order
    known,      \* what it last saw of the document, None before it has
    expired,    \* recoveries whose deadline has passed
    faults, losses

disk == <<visible, outcomes, flushed, swept>>
helpers == <<lock, alive, inbox, task, spent>>
entry == <<current, log, known, expired>>
counters == <<faults, losses>>
vars == <<disk, helpers, entry, counters>>

Stage == {"check", "store"}
Message == [call : Call, try : 1 .. 2, stage : Stage]
Step == {"syncing", "settling", "writing", "flushed", "renamed"}
Task == [call : Call, try : 1 .. 2, step : Step, flushed : BOOLEAN, doc : Document]
Entry == [op : Operation, base : Revision, home : Helper,
          try : 1 .. 2, helper : Helper, told : Outcome \cup {None, "reading"}]

Seen == [format : Format, revision : Revision, migration : Migration]
Picture(d) == [format |-> d.format, revision |-> d.revision, migration |-> d.migration]

ASSUME NoneIsNoValue ==
    /\ None \notin Task /\ None \notin Seen /\ None \notin Nat
    /\ None \notin Outcome \cup {"reading", "credential", "container", "pending", "clean"}

TypeOK ==
    /\ visible \in Document /\ outcomes \subseteq Document
    /\ flushed \in BOOLEAN /\ swept \in BOOLEAN
    /\ lock \in Helper \cup {None} /\ alive \subseteq Helper /\ current \in Helper
    /\ inbox \in [Helper -> SUBSET Message]
    /\ task \in [Helper -> Task \cup {None}]
    /\ \A h \in Helper : (lock = h) <=> (task[h] # None)
    /\ spent \subseteq Call /\ expired \subseteq Call
    /\ log \in Seq(Entry) /\ Len(log) <= MaxCalls
    /\ known \in Seen \cup {None}
    /\ faults \in 0 .. MaxFaults /\ losses \in 0 .. MaxLosses
-----------------------------------------------------------------------------
(***************************************************************************)
(* The global entry: supervisor                                            *)
(***************************************************************************)
Busy == Len(log) > 0 /\ log[Len(log)].told \in {None, "reading"}
Latest == Len(log)

Sent(box, h, m) == IF h \in alive THEN [box EXCEPT ![h] = @ \cup {m}] ELSE box

FirstStage(o) == IF o = "save" THEN "check" ELSE "store"

\* What is asked for, given the document last seen.  A recovery is asked for
\* after any read that failed.
Offered(k) ==
    {"recover"}
      \cup (IF k.format = "missing" THEN {"initialize"} ELSE {})
      \cup (IF k.format = "legacy" THEN {"migrate"} ELSE {})
      \cup (IF k.format = "v2" THEN {"open", "commit", "save"} ELSE {})
      \cup (IF k.migration = "pending" THEN {"cleanup"} ELSE {})

Issue(o) ==
    /\ ~Busy /\ Len(log) < MaxCalls
    /\ known # None => o \in Offered(known)
    /\ known = None => o = "recover"
    /\ log' = Append(log, [op |-> o, base |-> IF known = None THEN 0 ELSE known.revision,
                           home |-> current, try |-> 1, helper |-> current, told |-> None])
    /\ inbox' = Sent(inbox, current, [call |-> Len(log) + 1, try |-> 1, stage |-> FirstStage(o)])
    /\ UNCHANGED <<disk, lock, alive, task, spent, current, known, expired, counters>>

Tell(n, what) == log' = [log EXCEPT ![n].told = what]

\* The check before a call finds no helper, or one that does not answer: it is
\* retired and another started.
Replace ==
    /\ ~Busy /\ current < MaxHelpers
    /\ current \in alive => faults < MaxFaults
    /\ faults' = IF current \in alive THEN faults + 1 ELSE faults
    /\ current' = current + 1 /\ alive' = alive \cup {current'}
    /\ UNCHANGED <<disk, lock, inbox, task, spent, log, known, expired, losses>>

\* profileStateRead, by a helper that answers.
Read ==
    /\ ~Busy
    /\ current \in alive /\ lock = None
    /\ known' = Picture(visible)
    /\ known' # known
    /\ UNCHANGED <<disk, helpers, current, log, expired, counters>>

\* A second attempt that fails is settled by a read of the document.
ReadAfterAttempts ==
    /\ Busy /\ log[Latest].told = "reading"
    /\ IF log[Latest].helper \in alive /\ lock = None
         THEN Tell(Latest, "reconciling") /\ known' = Picture(visible)
         ELSE Tell(Latest, "failed") /\ known' = known
    /\ UNCHANGED <<disk, helpers, current, expired, counters>>

\* The attempt again, with the commit id it had.
SendAgain(box, n, h) ==
    /\ log' = [log EXCEPT ![n].try = 2, ![n].helper = h]
    /\ inbox' = [box EXCEPT ![h] = @ \cup {[call |-> n, try |-> 2, stage |-> FirstStage(log[n].op)]}]

\* No answer within the deadline of the RPC: the client is retired; whatever it
\* was sent is not taken back.
GiveUp ==
    /\ Busy /\ log[Latest].told = None
    /\ log[Latest].helper \in alive => faults < MaxFaults
    /\ faults' = IF log[Latest].helper \in alive THEN faults + 1 ELSE faults
    /\ IF log[Latest].op = "recover"
         THEN /\ expired' = expired \cup {Latest}
              /\ Tell(Latest, "failed")
              /\ UNCHANGED <<current, inbox>>
         ELSE /\ expired' = expired
              /\ CASE log[Latest].try = 2 ->
                        Tell(Latest, "reading") /\ UNCHANGED <<current, inbox>>
                   [] log[Latest].try = 1 /\ current < MaxHelpers ->
                        SendAgain(inbox, Latest, current + 1) /\ current' = current + 1
                   [] OTHER -> Tell(Latest, "failed") /\ UNCHANGED <<current, inbox>>
    /\ alive' = IF current' # current THEN alive \cup {current'} ELSE alive
    /\ UNCHANGED <<disk, lock, task, spent, known, losses>>

\* The deadline of a recovery passes while its helper waits or works.
DeadlinePasses ==
    /\ Busy /\ log[Latest].op = "recover" /\ Latest \notin expired
    /\ log[Latest].told = None
    /\ expired' = expired \cup {Latest}
    /\ UNCHANGED <<disk, helpers, current, log, known, counters>>

\* IINA starts again; its helpers may outlive it for a moment.
Restarted ==
    /\ current < MaxHelpers
    /\ current' = current + 1
    /\ log' = IF Busy THEN [log EXCEPT ![Latest].told = "failed"] ELSE log
    /\ known' = None

Restart ==
    /\ faults < MaxFaults /\ faults' = faults + 1
    /\ Restarted
    /\ alive' = alive \cup {current'}
    /\ UNCHANGED <<disk, lock, inbox, task, spent, expired, losses>>
-----------------------------------------------------------------------------
(***************************************************************************)
(* A helper: what an answer does at the other end                          *)
(***************************************************************************)
\* Only the attempt the supervisor still waits for is heard.
Heard(n, try) == n = Latest /\ log[n].told = None /\ log[n].try = try

Retries(o) == o \notin {"recover", "migrate"}

Answer(box, h, n, try, what) ==
    IF ~Heard(n, try)
      THEN inbox' = box /\ UNCHANGED <<log, known>>
      ELSE CASE what \in {"committed", "unchanged", "retained"} ->
                  Tell(n, what) /\ known' = Picture(visible) /\ inbox' = box
             [] what = "unconfirmed" /\ log[n].op = "recover" ->
                  Tell(n, "reading") /\ inbox' = box /\ UNCHANGED known
             [] what = "unconfirmed" /\ try = 1 /\ Retries(log[n].op) ->
                  SendAgain(box, n, h) /\ UNCHANGED known
             [] OTHER ->
                  /\ Tell(n, IF try = 2 THEN "reading" ELSE "failed")
                  /\ inbox' = box /\ UNCHANGED known

(***************************************************************************)
(* What a helper does with a call, once it has the lock                    *)
(***************************************************************************)
Readable(d) == d.format = "v2"
Confirmed(d, n) == Readable(d) /\ d.by = n
ReplacesAnything(d) == d.format # "legacy"  \* mutant
Discards(d) == d.format \in {"missing", "torn"}

\* A document in place of one that could not be read, or of none.
Fresh(n, revision) ==
    [format |-> "v2", revision |-> revision, by |-> n, calls |-> {n},
     migration |-> None, damage |-> None]

Amended(d, n) ==
    [d EXCEPT !.revision = @ + 1, !.by = n, !.calls = @ \cup {n}]

Migrated(d, n) == [Amended(d, n) EXCEPT !.format = "v2", !.migration = "pending"]

\* Only a save of the profile makes its damaged credential good.
Saved(d, n) ==
    [Amended(d, n) EXCEPT !.damage = IF @ = "credential" THEN None ELSE @]

Written(d, o, n) ==
    CASE o = "recover" -> Fresh(n, 1)
      [] o = "initialize" -> Fresh(n, d.revision + 1)
      [] o = "migrate" -> Migrated(d, n)
      [] o = "save" -> Saved(d, n)
      [] OTHER -> Amended(d, n)

\* May the document be replaced by this call?
Accepts(d, o, base) ==
    CASE o = "recover" -> Discards(d)
      [] o = "initialize" -> d.format = "missing" /\ d.revision = base
      [] o = "migrate" -> d.format = "legacy"
      [] o = "open" -> Readable(d)
      [] OTHER -> Readable(d) /\ d.revision = base

\* The directory is synchronised and the document read again.
Confirms(d, o, n) ==
    \/ Confirmed(d, n)
    \/ o = "migrate" /\ Readable(d) /\ d.migration # None

\* A cleanup makes sure of the migrated document before it removes anything.
Settles(d, o) == o = "cleanup" /\ Readable(d) /\ d.migration # None

Refusal(d, o) ==
    CASE o = "recover" /\ Readable(d) -> "retained"
      [] o = "open" /\ d.format = "missing" -> "unchanged"
      [] OTHER -> "failed"

-----------------------------------------------------------------------------
(***************************************************************************)
(* A helper                                                                *)
(***************************************************************************)
\* The store is an actor and the lock is a file's: one call at a time, of one
\* helper.  The document is read under the lock.
Takes(h, m) == h \in alive /\ m \in inbox[h] /\ task[h] = None
Rest(h, m) == [inbox EXCEPT ![h] = @ \ {m}]
Operates(m) == log[m.call].op

Hold(h, m, step, d) ==
    /\ lock' = h
    /\ task' = [task EXCEPT ![h] = [call |-> m.call, try |-> m.try, step |-> step,
                                    flushed |-> FALSE, doc |-> d]]
    /\ inbox' = Rest(h, m)
    /\ UNCHANGED <<disk, entry, alive, spent, counters>>

\* Either a confirmation of what is stored, or what cleanup does first.
BeginConfirming(h, m) ==
    /\ Takes(h, m) /\ lock = None
    /\ Confirms(visible, Operates(m), m.call)
    /\ Hold(h, m, "syncing", visible)

BeginCleanup(h, m) ==
    /\ Takes(h, m) /\ lock = None
    /\ ~Confirms(visible, Operates(m), m.call)
    /\ Settles(visible, Operates(m))
    /\ Hold(h, m, "settling", visible)

Undecided(m) ==
    /\ ~Confirms(visible, Operates(m), m.call)
    /\ ~Settles(visible, Operates(m))

\* The sealed frame of a save can be opened once, by the helper that has the
\* channel.  The lock is free until the save itself, which checks again.
OpensFrame(h, m) ==
    /\ Readable(visible) /\ visible.revision = log[m.call].base
    /\ h = log[m.call].home /\ m.call \notin spent

OpenFrame(h, m) ==
    /\ Takes(h, m) /\ lock = None
    /\ m.stage = "check" /\ Undecided(m)
    /\ OpensFrame(h, m)
    /\ spent' = spent \cup {m.call}
    /\ inbox' = [Rest(h, m) EXCEPT ![h] = @ \cup {[m EXCEPT !.stage = "store"]}]
    /\ UNCHANGED <<disk, entry, lock, alive, task, counters>>

\* A document with parts that could not be read is never written.
Replaces(m) ==
    LET o == Operates(m)
        d == visible
    IN  /\ Accepts(d, o, log[m.call].base)
        /\ Written(d, o, m.call).damage = None
        /\ ~(o = "recover" /\ m.call \in expired)

BeginWriting(h, m) ==
    /\ Takes(h, m) /\ lock = None
    /\ m.stage = "store" /\ Undecided(m)
    /\ Replaces(m)
    /\ Hold(h, m, "writing", Written(visible, Operates(m), m.call))

Refuse(h, m) ==
    /\ Takes(h, m) /\ lock = None
    /\ Undecided(m)
    /\ ~(IF m.stage = "check" THEN OpensFrame(h, m) ELSE Replaces(m))
    /\ Answer(Rest(h, m), h, m.call, m.try, Refusal(visible, Operates(m)))
    /\ UNCHANGED <<disk, lock, alive, task, spent, current, expired, counters>>

\* Another helper has had the lock until the deadline.
LockTimesOut(h, m) ==
    /\ Takes(h, m) /\ lock # None
    /\ faults < MaxFaults /\ faults' = faults + 1
    /\ Answer(Rest(h, m), h, m.call, m.try, "failed")
    /\ UNCHANGED <<disk, lock, alive, task, spent, current, expired, losses>>

Proceed(h, t) == task' = [task EXCEPT ![h] = t]
Unlock(h) == lock' = None /\ task' = [task EXCEPT ![h] = None]
At(h, step) == task[h] # None /\ task[h].step = step

Durable == IF flushed THEN visible ELSE Torn

\* A cleanup makes sure of the migrated document, removes what it can of the
\* legacy files, and stores how far it came if that is any further.
SyncBeforeSweep == outcomes' = {Durable}
Swept(d, n, all) == [Amended(d, n) EXCEPT !.migration = IF all THEN "clean" ELSE "pending"]

SweepNothing(h) ==
    /\ At(h, "settling")
    /\ SyncBeforeSweep
    /\ swept' \in IF visible.migration = "clean" THEN {swept} ELSE {swept, TRUE}
    /\ Answer(inbox, h, task[h].call, task[h].try, "unchanged")
    /\ Unlock(h)
    /\ UNCHANGED <<visible, flushed, alive, spent, current, expired, counters>>

Sweep(h, all) ==
    /\ At(h, "settling") /\ visible.migration = "pending"
    /\ SyncBeforeSweep
    /\ swept' = TRUE
    /\ Proceed(h, [task[h] EXCEPT !.step = "writing",
                                  !.doc = Swept(visible, task[h].call, all)])
    /\ UNCHANGED <<visible, flushed, lock, alive, inbox, spent, entry, counters>>

Overdue(t) == log[t.call].op = "recover" /\ t.call \in expired

\* The document is written to a temporary file and flushed.
Flushed(t) == [t EXCEPT !.step = "flushed", !.flushed = TRUE]

Flush(h) ==
    /\ At(h, "writing") /\ ~Overdue(task[h])
    /\ Proceed(h, Flushed(task[h]))
    /\ UNCHANGED <<disk, lock, alive, inbox, spent, entry, counters>>

Rename(h) ==
    /\ At(h, "flushed") /\ ~Overdue(task[h])
    /\ visible' = task[h].doc
    /\ flushed' = task[h].flushed
    /\ outcomes' = outcomes \cup {IF flushed' THEN visible' ELSE Torn}
    /\ Proceed(h, [task[h] EXCEPT !.step = "renamed"])
    /\ UNCHANGED <<swept, lock, alive, inbox, spent, entry, counters>>

\* The directory is synchronised, the document read back, and the call answered.
RenameOnly == outcomes' = outcomes  \* mutant
SyncDirectory == outcomes' = {Durable}

Confirm(h) ==
    /\ At(h, "renamed") \/ At(h, "syncing")
    /\ SyncDirectory
    /\ LET t == task[h]
       IN  Answer(inbox, h, t.call, t.try,
                  IF visible.by = t.call THEN "committed" ELSE "unchanged")
    /\ Unlock(h)
    /\ UNCHANGED <<visible, flushed, swept, alive, spent, current, expired, counters>>

\* Before the rename nothing has happened and the temporary file is removed;
\* after it nobody knows what a loss of power would leave.
Failure(t) ==
    IF t.step \in {"renamed", "syncing"} /\ log[t.call].op # "migrate"
      THEN "unconfirmed" ELSE "failed"

StepFails(h) ==
    /\ task[h] # None
    /\ IF task[h].step \in {"writing", "flushed"} /\ Overdue(task[h])
         THEN faults' = faults
         ELSE faults < MaxFaults /\ faults' = faults + 1
    /\ Answer(inbox, h, task[h].call, task[h].try, Failure(task[h]))
    /\ Unlock(h)
    /\ UNCHANGED <<disk, alive, spent, current, expired, losses>>

GoneKeepingLock(gone) ==  \* mutant
    /\ alive' = alive \ gone /\ lock' = lock
    /\ task' = [h \in Helper |-> IF h \in gone THEN None ELSE task[h]]
    /\ inbox' = [h \in Helper |-> IF h \in gone THEN {} ELSE inbox[h]]
\* The lock of a process that ended is free.
Gone(gone) ==
    /\ alive' = alive \ gone
    /\ lock' = IF lock \in gone THEN None ELSE lock
    /\ task' = [h \in Helper |-> IF h \in gone THEN None ELSE task[h]]
    /\ inbox' = [h \in Helper |-> IF h \in gone THEN {} ELSE inbox[h]]

Die(h) ==
    /\ h \in alive /\ faults < MaxFaults /\ faults' = faults + 1
    /\ Gone({h})
    /\ UNCHANGED <<disk, spent, entry, losses>>

\* Everything stops; one of the possible documents is found afterwards.
LosePower ==
    /\ losses < MaxLosses /\ losses' = losses + 1
    /\ visible' \in outcomes /\ outcomes' = {visible'} /\ flushed' = TRUE
    /\ Restarted
    /\ lock' = None
    /\ alive' = {current'}
    /\ task' = [h \in Helper |-> None]
    /\ inbox' = [h \in Helper |-> {}]
    /\ UNCHANGED <<swept, spent, expired, faults>>
-----------------------------------------------------------------------------
Blank(format, revision, damage) ==
    [format |-> format, revision |-> revision, by |-> None, calls |-> {},
     migration |-> None, damage |-> damage]

Init ==
    /\ visible \in {Blank("missing", 0, None), Torn, Blank("legacy", 1, None),
                    Blank("v2", 1, None), Blank("v2", 1, "credential"),
                    Blank("v2", 1, "container")}
    /\ outcomes = {visible} /\ flushed = TRUE /\ swept = FALSE
    /\ lock = None /\ alive = {1} /\ current = 1
    /\ inbox = [h \in Helper |-> {}] /\ task = [h \in Helper |-> None]
    /\ spent = {} /\ log = <<>> /\ known = None /\ expired = {}
    /\ faults = 0 /\ losses = 0

Next ==
    \/ \E o \in Operation : Issue(o)
    \/ Replace \/ Read \/ ReadAfterAttempts \/ GiveUp \/ DeadlinePasses \/ Restart
    \/ \E h \in Helper :
        \/ \E m \in inbox[h] :
            \/ BeginConfirming(h, m) \/ BeginCleanup(h, m) \/ OpenFrame(h, m)
            \/ BeginWriting(h, m) \/ Refuse(h, m) \/ LockTimesOut(h, m)
        \/ SweepNothing(h) \/ \E all \in BOOLEAN : Sweep(h, all)
        \/ Flush(h) \/ Rename(h) \/ Confirm(h) \/ StepFails(h)
        \/ Die(h)
    \/ LosePower

Spec == Init /\ [][Next]_vars
-----------------------------------------------------------------------------
(***************************************************************************)
(* Properties                                                              *)
(***************************************************************************)
\* A call that was answered with "committed" is in every document a loss of
\* power may leave, now and for ever.
CommittedIsDurable ==
    \A n \in DOMAIN log :
        log[n].told = "committed" => \A d \in outcomes : n \in d.calls

\* No helper replaces a document that can be read by one that does not follow
\* from it: not a recovery that comes late or after a mere failure to read, not
\* a second try, not a helper that was given up.
NothingIsLost ==
    [][visible' # visible /\ losses' = losses =>
         \/ visible.format \in {"missing", "torn"}
         \/ visible.calls \subseteq visible'.calls /\ visible'.revision = visible.revision + 1]_vars

\* What the legacy version left is removed only when no loss of power can bring
\* the legacy document back.
CleanupIsAfterMigration == swept => \A d \in outcomes : Readable(d)

\* What others rely on, an answer or the removal of what came before, is durable.
ReliedOnIsDurable == CommittedIsDurable /\ CleanupIsAfterMigration
=============================================================================
