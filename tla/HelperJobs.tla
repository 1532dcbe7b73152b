------------------------------ MODULE HelperJobs ------------------------------
(***************************************************************************)
(* The provider requests inside the transport helper: the worker that      *)
(* claims request files, the handler that authorizes a request three       *)
(* times, the table of active jobs, the limiter of a host, the transfer,   *)
(* and everything that stops a job: its cancellation, the end of the draft *)
(* whose credential it uses, the exit of the helper.                       *)
(*                                                                         *)
(* Each job has two threads, the handler and the transfer, and is stopped  *)
(* by others.  All requests go to one host; a draft is the one draft there *)
(* is.  The client gives every request an identity of its own, and never   *)
(* asks for a shutdown.                                                    *)
(***************************************************************************)
EXTENDS Naturals, Sequences, FiniteSets, SequencesExt

CONSTANTS
    Job,         \* requests
    DraftJob,    \* those with the credential of the draft; the rest use a saved profile
    MaxPerHost,  \* maximumConnectionsPerHost
    MaxClaims    \* maximumConcurrentRequests of the worker

ASSUME JobsAssumption ==
    /\ DraftJob \subseteq Job /\ IsFiniteSet(Job)
    /\ MaxPerHost \in Nat \ {0} /\ MaxClaims \in Nat \ {0}

VARIABLES
    request,    \* the handler of each request
    transfer,   \* the transfer of each
    entry,      \* its entry in the table of active jobs
    told,       \* transfers that were cancelled
    preparing,  \* preparingJobs: requests whose generation is still valid
    cancel,     \* the cancellation of each
    permits,    \* the host's active requests, as the limiter counts them
    hostQueue,      \* transfers that wait for a permit
    draft,      \* phase of the draft
    draftJobs,  \* its jobs
    closing,    \* jobs the end of the draft will cancel
    changed,    \* the saved profile is not what the requests were made for
    exiting     \* the worker is cancelled

handlers == <<request, preparing>>
jobs == <<transfer, entry, told>>
limiter == <<permits, hostQueue>>
drafts == <<draft, draftJobs, closing>>
jobVars == <<handlers, jobs, limiter, drafts, cancel, changed, exiting>>

Outcome == {"result", "refused"}
Handled == {"admitted", "ready", "registered", "installed", "finished"}
WithPermit == {"holding", "checked", "authorized", "network"}

JobsTypeOK ==
    /\ request \in [Job -> {"none"} \cup Handled \cup Outcome]
    /\ transfer \in [Job -> {"none", "new", "queued", "answered", "failed"} \cup WithPermit]
    /\ entry \in [Job -> {"none", "active", "taken", "cancelled", "finished"}]
    /\ told \subseteq Job
    /\ preparing \subseteq Job
    /\ cancel \in [Job -> {"none", "hit", "missed", "stopped", "over"}]
    /\ permits = Cardinality({j \in Job : transfer[j] \in WithPermit})
    /\ permits <= MaxPerHost
    /\ hostQueue \in Seq(Job)
    /\ draft \in {"none", "preparing", "live", "closed"}
    /\ draftJobs \subseteq DraftJob /\ closing \subseteq DraftJob
    /\ changed \in BOOLEAN /\ exiting \in BOOLEAN

JobsInit ==
    /\ request = [j \in Job |-> "none"] /\ cancel = [j \in Job |-> "none"]
    /\ transfer = [j \in Job |-> "none"] /\ entry = [j \in Job |-> "none"]
    /\ told = {} /\ preparing = {} /\ permits = 0 /\ hostQueue = <<>>
    /\ draft = "none" /\ draftJobs = {} /\ closing = {}
    /\ changed = FALSE /\ exiting = FALSE
-----------------------------------------------------------------------------
(***************************************************************************)
(* The worker and the handler                                              *)
(***************************************************************************)
Busy == Cardinality({j \in Job : request[j] \in Handled})
      + Cardinality({j \in Job : cancel[j] \in {"hit", "missed"}})

Claims == ~exiting /\ Busy < MaxClaims

CredentialIsValid(j) == IF j \in DraftJob THEN draft = "live" ELSE ~changed

\* authorize: the generation is valid and so is what the credential belongs to.
AuthorizedByCredential(j) == CredentialIsValid(j)  \* mutant
Authorized(j) == j \in preparing /\ CredentialIsValid(j)

\* authorizeDraft enters the job in the draft it is going to use.
Enters(j) == draftJobs' = IF j \in DraftJob /\ draft = "live" THEN draftJobs \cup {j} ELSE draftJobs

\* The handler returns, and with it the generation and the job of the draft.
Answers(j, answer) ==
    /\ request' = [request EXCEPT ![j] = answer]
    /\ preparing' = preparing \ {j}
    /\ draftJobs' = draftJobs \ {j}

\* The worker claims the file.  Claimed files are handled at the same time, a
\* cancellation with its request, or before it.  The client has the reference
\* of the draft from beginDraft.
Claim(j) ==
    /\ request[j] = "none" /\ Claims
    /\ j \in DraftJob => draft = "live"
    /\ request' = [request EXCEPT ![j] = "admitted"]
    /\ preparing' = preparing \cup {j}
    /\ UNCHANGED <<jobs, limiter, drafts, cancel, changed, exiting>>

\* authorize, and the reading of the credential.
Authorize(j) ==
    /\ request[j] = "admitted"
    /\ IF Authorized(j)
         THEN /\ request' = [request EXCEPT ![j] = "ready"]
              /\ Enters(j) /\ UNCHANGED preparing
         ELSE Answers(j, "refused")
    /\ UNCHANGED <<jobs, limiter, draft, closing, cancel, changed, exiting>>

\* perform: the job is entered, and its transfer begins to run.
Register(j) ==
    /\ request[j] = "ready"
    /\ entry' = [entry EXCEPT ![j] = "active"]
    /\ transfer' = [transfer EXCEPT ![j] = "new"]
    /\ request' = [request EXCEPT ![j] = "registered"]
    /\ UNCHANGED <<preparing, told, limiter, drafts, cancel, changed, exiting>>

\* install: the way to cancel the transfer, or its cancellation at once.
InstallUnchecked(j) ==  \* mutant
    /\ request[j] = "registered"
    /\ request' = [request EXCEPT ![j] = "installed"]
    /\ UNCHANGED <<preparing, jobs, limiter, drafts, cancel, changed, exiting>>
Install(j) ==
    /\ request[j] = "registered"
    /\ request' = [request EXCEPT ![j] = "installed"]
    /\ told' = IF entry[j] = "cancelled" THEN told \cup {j} ELSE told
    /\ UNCHANGED <<preparing, transfer, entry, limiter, drafts, cancel, changed, exiting>>

\* finish: what was taken out of the table has no result.
Finish(j) ==
    /\ request[j] = "installed" /\ transfer[j] \in {"answered", "failed"}
    /\ entry' = [entry EXCEPT ![j] = IF @ = "active" THEN "finished" ELSE @]
    /\ IF entry[j] = "active" /\ transfer[j] = "answered"
         THEN /\ request' = [request EXCEPT ![j] = "finished"]
              /\ UNCHANGED <<preparing, draftJobs>>
         ELSE Answers(j, "refused")
    /\ UNCHANGED <<transfer, told, limiter, draft, closing, cancel, changed, exiting>>

\* An answer that repeats the credential is refused.
Reflects(j) == Answers(j, "refused")

\* Authorized for the last time.
Respond(j) ==
    /\ request[j] = "finished"
    /\ IF Authorized(j) THEN Answers(j, "result") \/ Reflects(j) ELSE Answers(j, "refused")
    /\ UNCHANGED <<jobs, limiter, draft, closing, cancel, changed, exiting>>
-----------------------------------------------------------------------------
(***************************************************************************)
(* The transfer                                                            *)
(***************************************************************************)
\* acquire: a permit, a place in the queue, or nothing when it is cancelled.
Acquire(j) ==
    /\ transfer[j] = "new"
    /\ CASE j \in told ->
              /\ transfer' = [transfer EXCEPT ![j] = "failed"]
              /\ UNCHANGED limiter
         [] j \notin told /\ permits < MaxPerHost ->
              /\ transfer' = [transfer EXCEPT ![j] = "holding"]
              /\ permits' = permits + 1 /\ UNCHANGED hostQueue
         [] OTHER ->
              /\ transfer' = [transfer EXCEPT ![j] = "queued"]
              /\ hostQueue' = Append(hostQueue, j) /\ UNCHANGED permits
    /\ UNCHANGED <<handlers, entry, told, drafts, cancel, changed, exiting>>

\* release: the permit passes to the first that waits.
ReleasePermitOnly(j, how) ==  \* mutant
    /\ transfer' = [transfer EXCEPT ![j] = how]
    /\ permits' = permits - 1 /\ UNCHANGED hostQueue
ReleasePermitTwice(j, how) ==  \* mutant
    /\ transfer' = [i \in Job |-> CASE i = j -> how
                                    [] hostQueue # <<>> /\ i = Head(hostQueue) -> "holding"
                                    [] OTHER -> transfer[i]]
    /\ permits' = permits - 1
    /\ hostQueue' = IF hostQueue = <<>> THEN hostQueue ELSE Tail(hostQueue)
ReleasePermit(j, how) ==
    IF hostQueue = <<>>
      THEN /\ transfer' = [transfer EXCEPT ![j] = how]
           /\ permits' = permits - 1 /\ UNCHANGED hostQueue
      ELSE /\ transfer' = [transfer EXCEPT ![j] = how, ![Head(hostQueue)] = "holding"]
           /\ hostQueue' = Tail(hostQueue) /\ UNCHANGED permits

Proceeds(j, next) == transfer' = [transfer EXCEPT ![j] = next] /\ UNCHANGED limiter

\* Before and after it is authorized again the transfer looks whether it is cancelled.
CheckCancelled(j) ==
    /\ transfer[j] \in {"holding", "authorized"}
    /\ IF j \in told THEN ReleasePermit(j, "failed")
         ELSE Proceeds(j, IF transfer[j] = "holding" THEN "checked" ELSE "network")
    /\ UNCHANGED <<handlers, entry, told, drafts, cancel, changed, exiting>>

AuthorizeTransfer(j) ==
    /\ transfer[j] = "checked"
    /\ IF Authorized(j) THEN Proceeds(j, "authorized") ELSE ReleasePermit(j, "failed")
    /\ Enters(j)
    /\ UNCHANGED <<handlers, entry, told, draft, closing, cancel, changed, exiting>>

\* An answer, an error, the timeout, or the end of a transfer that was told.
Transferred(j) ==
    /\ transfer[j] = "network"
    /\ \E how \in {"answered", "failed"} : ReleasePermit(j, how)
    /\ UNCHANGED <<handlers, entry, told, drafts, cancel, changed, exiting>>

\* The cancellation handler of the limiter takes a waiter out of the queue.
LeavesQueue(j) ==
    /\ j \in told /\ transfer[j] = "queued"
    /\ \E i \in 1..Len(hostQueue) : hostQueue[i] = j /\ hostQueue' = RemoveAt(hostQueue, i)
    /\ transfer' = [transfer EXCEPT ![j] = "failed"]
    /\ UNCHANGED <<handlers, entry, told, permits, drafts, cancel, changed, exiting>>
-----------------------------------------------------------------------------
(***************************************************************************)
(* What stops a job                                                        *)
(***************************************************************************)
\* cancelSync: whoever takes the job out of the table cancels it.
CancelSync(j) == entry' = [entry EXCEPT ![j] = IF @ = "active" THEN "taken" ELSE @]

CancelJob(j) ==
    /\ entry[j] = "taken"
    /\ entry' = [entry EXCEPT ![j] = "cancelled"]
    /\ told' = IF request[j] = "installed" THEN told \cup {j} ELSE told
    /\ UNCHANGED <<handlers, transfer, limiter, drafts, cancel, changed, exiting>>

\* /v2/cancel: the generation first, the job after an await.
ClaimCancel(j) ==
    /\ cancel[j] = "none" /\ Claims
    /\ cancel' = [cancel EXCEPT ![j] = IF j \in preparing THEN "hit" ELSE "missed"]
    /\ preparing' = preparing \ {j}
    /\ UNCHANGED <<request, jobs, limiter, drafts, changed, exiting>>

EndCancel(j) ==
    /\ cancel[j] \in {"hit", "missed"}
    /\ cancel' = [cancel EXCEPT ![j] = IF @ = "hit" THEN "stopped" ELSE "over"]
    /\ CancelSync(j)
    /\ UNCHANGED <<handlers, transfer, told, limiter, drafts, changed, exiting>>

\* beginDraft is under way while the message is decrypted; closed meanwhile, it
\* does not come to life.
BeginDraft ==
    /\ \/ draft = "none" /\ draft' = "preparing"
       \/ draft = "preparing" /\ draft' = "live"
    /\ UNCHANGED <<handlers, jobs, limiter, draftJobs, closing, cancel, changed, exiting>>

\* Cancelled before or after it began, ended, expired or without its owner: its
\* jobs are cancelled by a task of their own.
DraftClosed ==
    /\ draft' = "closed"
    /\ closing' = closing \cup draftJobs
    /\ draftJobs' = {}

CloseDraft ==
    /\ draft # "closed" /\ DraftClosed
    /\ UNCHANGED <<handlers, jobs, limiter, cancel, changed, exiting>>

CancelDraftJob(j) ==
    /\ j \in closing
    /\ closing' = closing \ {j}
    /\ CancelSync(j)
    /\ UNCHANGED <<handlers, transfer, told, limiter, draft, draftJobs, cancel, changed, exiting>>

ProfileChanges ==
    /\ ~changed /\ changed' = TRUE
    /\ UNCHANGED <<handlers, jobs, limiter, drafts, cancel, exiting>>

\* The helper has been idle too long or has lost its parent.
Exit ==
    /\ ~exiting /\ exiting' = TRUE
    /\ UNCHANGED <<handlers, jobs, limiter, drafts, cancel, changed>>

\* The worker is cancelled, and with it every request it handles.
CancelHandler(j) ==
    /\ exiting /\ request[j] \in {"registered", "installed"} /\ entry[j] = "active"
    /\ CancelSync(j)
    /\ UNCHANGED <<handlers, transfer, told, limiter, drafts, cancel, changed, exiting>>

Handler(j) ==
    Authorize(j) \/ Register(j) \/ Install(j) \/ Finish(j) \/ Respond(j)
Transfer(j) == Acquire(j) \/ CheckCancelled(j) \/ AuthorizeTransfer(j) \/ Transferred(j)
Stop(j) == CancelJob(j) \/ LeavesQueue(j) \/ EndCancel(j) \/ CancelDraftJob(j) \/ CancelHandler(j)

JobsNext ==
    \/ \E j \in Job :
        \/ Claim(j) \/ Handler(j) \/ Transfer(j) \/ ClaimCancel(j) \/ Stop(j)
    \/ BeginDraft \/ CloseDraft \/ ProfileChanges \/ Exit

\* Actors and tasks run.  A transfer has a timeout.
JobsFairness ==
    \A j \in Job : WF_jobVars(Handler(j)) /\ WF_jobVars(Transfer(j)) /\ WF_jobVars(Stop(j))

JobsSpec == JobsInit /\ [][JobsNext]_jobVars /\ JobsFairness
-----------------------------------------------------------------------------
(***************************************************************************)
(* Properties                                                              *)
(***************************************************************************)
\* A request whose cancellation came while it was handled is not answered with
\* a result, however far it was.
CancelledHasNoResult ==
    \A j \in Job : cancel[j] \in {"hit", "stopped"} => request[j] # "result"

\* Nothing that was stopped, by its cancellation or with its draft, stays on the
\* network: its transfer was told, or whoever is to tell it is on the way.
Stopped(j) == cancel[j] = "stopped" \/ (j \in DraftJob \ closing /\ draft = "closed")
OnItsWay(j) == entry[j] = "taken" \/ request[j] = "registered"
StoppedLeavesNetwork ==
    \A j \in Job : transfer[j] = "network" /\ Stopped(j) => j \in told \/ OnItsWay(j)

\* What the worker claimed is answered, although permits are few, waiters are
\* cancelled in the queue and the helper exits meanwhile.
JobsEnd == \A j \in Job : request[j] = "admitted" ~> request[j] \in Outcome
=============================================================================
