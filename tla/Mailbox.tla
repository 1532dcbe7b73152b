------------------------------- MODULE Mailbox -------------------------------
(***************************************************************************)
(* The file mailbox between the windows and the global entry: frames in    *)
(* files, one direction to the entry and one back, a limit on the frames   *)
(* of a direction, and the entry's list of the windows it believes to be   *)
(* there.                                                                  *)
(*                                                                         *)
(* Frames carry the time and the number of their creation and are read in  *)
(* that order; the clock is taken to advance.  What a handler publishes is *)
(* computed on a copy of the responses, so that a handler may publish      *)
(* several times and stop where a full queue throws.  The module that uses *)
(* the mailbox adds its messages and says what their handlers do.          *)
(***************************************************************************)
EXTENDS Naturals, Sequences, FiniteSets, SequencesExt, Functions

CONSTANTS
    Window,    \* the windows' player identities
    MaxDepth   \* maxQueueDepth, for each direction

ASSUME MailboxAssumption == IsFiniteSet(Window) /\ MaxDepth \in Nat \ {0}

VARIABLES
    players,    \* the registered windows, in the order they registered
    requests,   \* frames to the global entry
    responses,  \* frames to each window
    window      \* "new", "open", "closed", or "aborted": its closing threw half-way

mailbox == <<players, requests, responses, window>>

Registered(w) == Contains(players, w)
Listening(w) == window[w] \in {"open", "aborted"}

MailboxTypeOK ==
    /\ players \in Seq(Window) /\ IsInjective(players)
    /\ window \in [Window -> {"new", "open", "aborted", "closed"}]
    /\ Len(requests) <= MaxDepth
    /\ SumFunction([w \in Window |-> Len(responses[w])]) <= MaxDepth

MailboxInit ==
    /\ players = <<>> /\ requests = <<>> /\ responses = [w \in Window |-> <<>>]
    /\ window = [w \in Window |-> "new"]
-----------------------------------------------------------------------------
(***************************************************************************)
(* The windows.                                                            *)
(***************************************************************************)
\* postMessage of a window: it throws when the queue is full.
CanPost(n) == Len(requests) + n <= MaxDepth
Posted(frames) == requests' = requests \o frames

\* publishInternal: a full queue is reported and forgotten.
PostedWhenFull(rs, frame) ==  \* mutant
    IF Len(rs) <= MaxDepth THEN Append(rs, frame) ELSE rs
PostedIfRoom(rs, frame) == IF Len(rs) < MaxDepth THEN Append(rs, frame) ELSE rs

\* The first of some frames, as many as find room.
Fitting(frames) ==
    IF CanPost(Len(frames)) THEN frames ELSE SubSeq(frames, 1, MaxDepth - Len(requests))

\* A window opens, and its script starts: the constructor says that the window is
\* there, then the script posts its first requests, unguarded.
Open(w, frames) ==
    /\ window[w] = "new"
    /\ window' = [window EXCEPT ![w] = "open"]
    /\ requests' = requests \o Fitting(<<[from |-> w, name |-> "heartbeat"]>> \o frames)
    /\ UNCHANGED <<players, responses>>

\* The poll tells every 30 s that the window is there.
\* While it is known to be, that only takes room, and is left out.
Heartbeat(w) ==
    /\ Listening(w) /\ ~Registered(w)
    /\ ~\E i \in DOMAIN requests : requests[i].from = w
    /\ requests' = PostedIfRoom(requests, [from |-> w, name |-> "heartbeat"])
    /\ UNCHANGED <<players, responses, window>>

\* poll: the responses are taken from their files and handled, one after the
\* other, up to 16 of them in a tick.
Received(w) ==
    /\ Listening(w) /\ responses[w] # <<>>
    /\ responses' = [responses EXCEPT ![w] = <<>>]
    /\ UNCHANGED <<players, requests, window>>

\* The listener of a closing window posts its cancellations, unguarded, and then
\* closes the mailbox, which says so if it can and removes what it did not read.
Close(w, frames) ==
    /\ Listening(w) /\ CanPost(Len(frames))
    /\ requests' = PostedIfRoom(requests \o frames, [from |-> w, name |-> "close"])
    /\ responses' = [responses EXCEPT ![w] = <<>>]
    /\ window' = [window EXCEPT ![w] = "closed"]
    /\ UNCHANGED players

\* Where a cancellation meets a full queue the listener ends: the window is gone,
\* and its script goes on as if it were there.
CloseAborts(w, frames) ==
    /\ Listening(w) /\ ~CanPost(Len(frames))
    /\ requests' = requests \o Fitting(frames)
    /\ window' = [window EXCEPT ![w] = "aborted"]
    /\ UNCHANGED <<players, responses>>
-----------------------------------------------------------------------------
(***************************************************************************)
(* The global entry.                                                       *)
(***************************************************************************)
\* How many more frames the windows' queue takes: it is one for all of them.
Room(out) == MaxDepth - SumFunction([w \in Window |-> Len(out[w])])

\* A handler works on a record e with the responses so far, the list of windows,
\* and whether a full queue has thrown: what follows a throw is not done.
\* A broadcast publishes for one window after the other, in the order they
\* registered, up to the one that does not fit; that one throws.
Broadcast(e, message) ==
    LET told == {e.to[i] : i \in {j \in DOMAIN e.to : j <= Room(e.out)}}
    IN  IF ~e.ok THEN e
        ELSE [e EXCEPT !.out = [w \in Window |->
                         IF w \in told THEN Append(@[w], message) ELSE @[w]],
                       !.ok = Len(e.to) <= Room(e.out)]

\* A message for one window; one that is not registered gets none.
Send(e, w, message) ==
    CASE ~e.ok \/ ~Contains(e.to, w)                -> e
      [] e.ok /\ Contains(e.to, w) /\ Room(e.out) = 0 -> [e EXCEPT !.ok = FALSE]
      [] OTHER -> [e EXCEPT !.out[w] = Append(@, message)]

Caught(e) == [e EXCEPT !.ok = TRUE]

\* poll: the next request.  Whatever it is, its window is there, except that a
\* window that says it closes is not.
IsRequest(name) == requests # <<>> /\ Head(requests).name = name
Seen(w) == IF Registered(w) THEN players ELSE Append(players, w)
Took(frame) ==
    /\ requests' = Tail(requests)
    /\ players' = Seen(frame.from)
    /\ UNCHANGED window

\* A window's frame that says that it closes removes it from the list.
Without(w) ==
    IF Registered(w) THEN RemoveAt(players, CHOOSE i \in DOMAIN players : players[i] = w)
    ELSE players
TookClose(w) ==
    /\ IsRequest("close") /\ Head(requests).from = w
    /\ requests' = Tail(requests)
    /\ players' = Without(w)
    /\ UNCHANGED window

\* A registered window the entry has not heard of for 90 s has expired.
Expired(w) ==
    /\ Registered(w)
    /\ players' = Without(w)
    /\ UNCHANGED <<requests, window>>

\* Responses nobody reads are removed when they are 30 s old.
CleanupExpired(w) ==
    /\ ~Listening(w) /\ responses[w] # <<>>
    /\ responses' = [responses EXCEPT ![w] = Tail(@)]
    /\ UNCHANGED <<players, requests, window>>

\* A frame that is older than that, or damaged, is dropped unread.
LoseRequest ==
    /\ requests # <<>>
    /\ requests' = Tail(requests)
    /\ UNCHANGED <<players, responses, window>>
LoseResponse(w) ==
    /\ responses[w] # <<>>
    /\ responses' = [responses EXCEPT ![w] = Tail(@)]
    /\ UNCHANGED <<players, requests, window>>
=============================================================================
