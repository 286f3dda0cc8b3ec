------------------------------- MODULE Rendezvous -------------------------------
(***************************************************************************)
(* How Chrome's native host finds the running app and becomes its one      *)
(* peer.                                                                   *)
(*                                                                         *)
(* The app publishes a file with its socket, its epoch and a token that    *)
(* expires; a host reads the file, connects, is attested by a native       *)
(* validator and presents the token it read.  Publications run one after   *)
(* another, each over several file operations, and are asked for at start, *)
(* by a timer and after every authentication.  The app may shut down,      *)
(* fail to start, be disabled or die at any point; application.lock keeps  *)
(* a second runtime away until the process of the first is gone.           *)
(***************************************************************************)
EXTENDS Naturals, Sequences, FiniteSets

CONSTANTS
  Peers,      \* places for connections and the hosts behind them
  MaxEpochs,  \* bound on starts of the app
  MaxTokens,  \* bound on publications
  MaxQueue,   \* bound on publications waiting their turn
  None

VARIABLES
  rt,        \* the runtime: startChromeProtectionRuntime's variables
  queue,     \* who asked for each publication that waits (publishTail)
  writing,   \* the publication under way
  file,      \* browser-bridge.json
  expired,   \* tokens up to this one are past their time
  peer,      \* each connection and the host behind it
  used,      \* history: tokens that authenticated a peer, each with how often
  abandoned  \* history: epochs that ended without removing their file

vars == <<rt, queue, writing, file, expired, peer, used, abandoned>>

Epochs == 1 .. MaxEpochs
Tokens == 1 .. MaxTokens
Phases == {"down", "starting", "running", "stranded", "draining", "stopping", "finishing"}
Stages == {"idle", "read", "validating", "waiting", "active", "destroyed"}
Askers == Peers \cup {"start", "refresh", "gone"}
Entry  == [epoch : Epochs, token : Tokens]

ASSUME RendezvousAssumption ==
  /\ IsFiniteSet(Peers) /\ None \notin Peers \cup Nat
  /\ Peers \cap {"start", "refresh", "gone"} = {}
  /\ {MaxEpochs, MaxTokens, MaxQueue} \subseteq Nat \ {0}

Absent == [at |-> "idle", entry |-> None]
NewRuntime(epoch) ==
  [phase |-> "starting", epoch |-> epoch, token |-> 0, candidate |-> None, active |-> None,
   disabled |-> FALSE, shown |-> FALSE]

Init ==
  /\ rt = [NewRuntime(0) EXCEPT !.phase = "down"]
  /\ queue = <<>> /\ writing = None /\ file = None /\ expired = 0
  /\ peer = [p \in Peers |-> Absent]
  /\ used = [t \in Tokens |-> 0] /\ abandoned = {}

-----------------------------------------------------------------------------
(* Vocabulary.                                                             *)

Closed == rt.phase \in {"draining", "stopping", "finishing"}
Alive  == rt.phase # "down"
\* The socket's name exists from listen until its unlink.
Listening == rt.phase \in {"starting", "running", "draining"}

\* Connections that are neither refused nor destroyed.
Held == {p \in Peers : peer[p].at \in {"validating", "waiting", "active"}}
\* socket.destroy(): no more is read; the close event is still to come.
Destroyed(conns, S) ==
  [p \in Peers |-> IF p \in S \cap Held THEN [conns[p] EXCEPT !.at = "destroyed"] ELSE conns[p]]

\* Publications are numbered by the token each draws; the file holds at most one record.
LastToken == IF rt.token > expired THEN rt.token ELSE expired
Room == Len(queue) < MaxQueue /\ LastToken + Len(queue) < MaxTokens

\* A socket that closes takes its place among those who asked.
Forget(asker, p) == IF asker = p THEN "gone" ELSE asker

-----------------------------------------------------------------------------
(* Publications.                                                           *)

\* One starts when the last has ended: token and expiry are in force before the file is written.
BeginPublication ==
  /\ writing = None /\ queue # <<>>
  /\ queue' = Tail(queue)
  /\ IF Closed
     THEN UNCHANGED <<rt, writing>>
     ELSE /\ LastToken < MaxTokens
          /\ rt' = [rt EXCEPT !.token = LastToken + 1]
          /\ writing' = [asker |-> Head(queue), token |-> LastToken + 1, named |-> FALSE]
  /\ UNCHANGED <<file, expired, peer, used, abandoned>>

\* atomicOwnerWrite: the rename is what hosts see; the directory is synced after it.
RenamePublication ==
  /\ writing # None /\ ~writing.named
  /\ file' = [epoch |-> rt.epoch, token |-> writing.token]
  /\ writing' = [writing EXCEPT !.named = TRUE]
  /\ UNCHANGED <<rt, queue, expired, peer, used, abandoned>>

EndPublication ==
  /\ writing # None /\ writing.named
  /\ writing' = None
  /\ rt' = IF writing.asker = "start" THEN [rt EXCEPT !.phase = "running"] ELSE rt
  /\ UNCHANGED <<queue, file, expired, peer, used, abandoned>>

\* Any file operation fails, before the rename or after it. Who asked decides what follows: a
\* start is given up but its server goes on; a refresh drops the active peer, a peer itself.
PublicationFails ==
  /\ writing # None
  /\ writing' = None
  /\ rt' = IF writing.asker = "start" THEN [rt EXCEPT !.phase = "stranded"] ELSE rt
  /\ peer' = Destroyed(peer, IF writing.asker = "refresh" THEN {rt.active} ELSE {writing.asker})
  /\ UNCHANGED <<queue, file, expired, used, abandoned>>

\* refreshTimer, at half the lifetime of a token.
Refresh ==
  /\ rt.phase = "running" /\ Room
  /\ queue' = Append(queue, "refresh")
  /\ UNCHANGED <<rt, writing, file, expired, peer, used, abandoned>>

\* Four minutes pass since a publication.
Expire ==
  /\ expired < rt.token
  /\ expired' = expired + 1
  /\ UNCHANGED <<rt, queue, writing, file, peer, used, abandoned>>

-----------------------------------------------------------------------------
(* The host, and the app's end of its connection.                          *)

\* rendezvous(): an unexpired record whose socket exists.
ReadRendezvous(p) ==
  /\ peer[p].at = "idle" /\ file # None
  /\ file.token > expired /\ file.epoch = rt.epoch /\ Listening
  /\ peer' = [peer EXCEPT ![p] = [at |-> "read", entry |-> file]]
  /\ UNCHANGED <<rt, queue, writing, file, expired, used, abandoned>>

\* A plausible bug in Accept, used only to test the properties.
AcceptWhileValidating(p) ==
  /\ peer[p].at = "read"
  /\ IF Listening /\ peer[p].entry.epoch = rt.epoch
          /\ ~Closed /\ ~rt.disabled /\ rt.active = None
     THEN /\ rt' = [rt EXCEPT !.candidate = p]
          /\ peer' = [peer EXCEPT ![p].at = "validating"]
     ELSE /\ peer' = [peer EXCEPT ![p] = Absent] /\ UNCHANGED rt
  /\ UNCHANGED <<queue, writing, file, expired, used, abandoned>>
\* It connects: one candidate or active connection at a time, any other is turned away.
Accept(p) ==
  /\ peer[p].at = "read"
  /\ IF Listening /\ peer[p].entry.epoch = rt.epoch
          /\ ~Closed /\ ~rt.disabled /\ rt.candidate = None /\ rt.active = None
     THEN /\ rt' = [rt EXCEPT !.candidate = p]
          /\ peer' = [peer EXCEPT ![p].at = "validating"]
     ELSE /\ peer' = [peer EXCEPT ![p] = Absent] /\ UNCHANGED rt
  /\ UNCHANGED <<queue, writing, file, expired, used, abandoned>>

\* A plausible bug in Validated, used only to test the properties.
ValidatedAnyhow(p) ==
  /\ peer[p].at \in {"validating", "destroyed"} /\ rt.candidate = p
  /\ peer' = [peer EXCEPT ![p].at = "waiting"]
  /\ UNCHANGED <<rt, queue, writing, file, expired, used, abandoned>>
\* attestPeer answers with an identity: reading starts, under a timer of two seconds.
Validated(p) ==
  /\ peer[p].at = "validating"
  /\ peer' = IF Closed THEN Destroyed(peer, {p}) ELSE [peer EXCEPT ![p].at = "waiting"]
  /\ UNCHANGED <<rt, queue, writing, file, expired, used, abandoned>>

\* A plausible bug in Dropped, used only to test the properties.
DroppedByTheHost(p) ==
  /\ peer[p].at = "active"
  /\ peer' = Destroyed(peer, {p})
  /\ UNCHANGED <<rt, queue, writing, file, expired, used, abandoned>>
\* The validator rejects or times out, no line arrives in time, a line is malformed, or the
\* host goes away.
Dropped(p) ==
  /\ p \in Held
  /\ peer' = Destroyed(peer, {p})
  /\ UNCHANGED <<rt, queue, writing, file, expired, used, abandoned>>

\* A plausible bug in Authenticate, used only to test the properties.
AuthenticateForGood(p) ==
  LET entry == peer[p].entry
      good == rt.active = None /\ entry.epoch = rt.epoch /\ entry.token = rt.token /\ rt.token > expired
  IN /\ peer[p].at = "waiting"
     /\ IF good
        THEN /\ rt' = [rt EXCEPT !.candidate = None, !.active = p]
             /\ peer' = [peer EXCEPT ![p].at = "active"]
             /\ used' = [used EXCEPT ![rt.token] = @ + 1]
        ELSE /\ peer' = Destroyed(peer, {p}) /\ UNCHANGED <<rt, used>>
     /\ UNCHANGED <<queue, writing, file, expired, abandoned>>
\* The host presents what it read. The token that let it in is due to be replaced.
Authenticate(p) ==
  LET entry == peer[p].entry
      good == rt.active = None /\ entry.epoch = rt.epoch /\ entry.token = rt.token /\ rt.token > expired
  IN /\ peer[p].at = "waiting"
     /\ IF good
        THEN /\ Room
             /\ rt' = [rt EXCEPT !.candidate = None, !.active = p]
             /\ peer' = [peer EXCEPT ![p].at = "active"]
             /\ used' = [used EXCEPT ![rt.token] = @ + 1]
             /\ queue' = Append(queue, p)
        ELSE /\ peer' = Destroyed(peer, {p}) /\ UNCHANGED <<rt, used, queue>>
     /\ UNCHANGED <<writing, file, expired, abandoned>>

\* A hello or a state of the extension: what browserState tells the page.
Receive(p) ==
  /\ peer[p].at = "active" /\ ~rt.shown
  /\ rt' = [rt EXCEPT !.shown = TRUE]
  /\ UNCHANGED <<queue, writing, file, expired, peer, used, abandoned>>

\* The socket's close event gives its place up.
SocketClosed(p) ==
  /\ peer[p].at = "destroyed"
  /\ peer' = [peer EXCEPT ![p] = Absent]
  /\ rt' = [rt EXCEPT !.candidate = IF @ = p THEN None ELSE @, !.active = IF @ = p THEN None ELSE @,
                      !.shown = FALSE]
  /\ queue' = [i \in DOMAIN queue |-> Forget(queue[i], p)]
  /\ writing' = IF writing = None THEN None ELSE [writing EXCEPT !.asker = Forget(@, p)]
  /\ UNCHANGED <<file, expired, used, abandoned>>

-----------------------------------------------------------------------------
(* The life of the runtime.                                                *)

Start ==
  /\ rt.phase = "down" /\ rt.epoch < MaxEpochs /\ LastToken < MaxTokens
  /\ rt' = NewRuntime(rt.epoch + 1)
  /\ expired' = LastToken
  /\ queue' = <<"start">>
  /\ UNCHANGED <<writing, file, peer, used, abandoned>>

\* The integration is removed: connections end and none is accepted again.
DisableIntegration ==
  /\ rt.phase = "running" /\ ~rt.disabled
  /\ rt' = [rt EXCEPT !.disabled = TRUE, !.shown = FALSE]
  /\ peer' = Destroyed(peer, {rt.candidate, rt.active})
  /\ UNCHANGED <<queue, writing, file, expired, used, abandoned>>

Close ==
  /\ rt.phase = "running"
  /\ rt' = [rt EXCEPT !.phase = "draining"]
  /\ peer' = Destroyed(peer, {rt.candidate, rt.active})
  /\ UNCHANGED <<queue, writing, file, expired, used, abandoned>>

\* session.drain() has ended: the server stops listening.
StopServer ==
  /\ rt.phase = "draining"
  /\ rt' = [rt EXCEPT !.phase = "stopping"]
  /\ UNCHANGED <<queue, writing, file, expired, peer, used, abandoned>>

\* stop(server) resolves when its last connection has closed.
ServerStopped ==
  /\ rt.phase = "stopping" /\ \A p \in Peers : peer[p].at \in {"idle", "read"}
  /\ rt' = [rt EXCEPT !.phase = "finishing"]
  /\ UNCHANGED <<queue, writing, file, expired, peer, used, abandoned>>

\* A plausible bug in RemoveRendezvous, used only to test the properties.
RemoveRendezvousAtOnce ==
  /\ rt.phase = "finishing"
  /\ rt' = [rt EXCEPT !.phase = "down"]
  /\ file' = IF file # None /\ file.epoch = rt.epoch THEN None ELSE file
  /\ UNCHANGED <<queue, writing, expired, peer, used, abandoned>>
\* After the last publication: the socket and, if it is this runtime's, the file are unlinked.
\* A file that cannot be unlinked is left.
RemoveRendezvous ==
  /\ rt.phase = "finishing" /\ queue = <<>> /\ writing = None
  /\ rt' = [rt EXCEPT !.phase = "down"]
  /\ \/ /\ file' = IF file # None /\ file.epoch = rt.epoch THEN None ELSE file
        /\ UNCHANGED abandoned
     \/ /\ abandoned' = abandoned \cup {rt.epoch} /\ UNCHANGED file
  /\ UNCHANGED <<queue, writing, expired, peer, used>>

\* The process dies; its hosts see their connections end.
Crash ==
  /\ Alive
  /\ rt' = [NewRuntime(rt.epoch) EXCEPT !.phase = "down", !.token = rt.token]
  /\ queue' = <<>> /\ writing' = None
  /\ peer' = [p \in Peers |-> Absent]
  /\ abandoned' = abandoned \cup {rt.epoch}
  /\ UNCHANGED <<file, expired, used>>

-----------------------------------------------------------------------------
Publishing == BeginPublication \/ RenamePublication \/ EndPublication \/ PublicationFails
Closing == StopServer \/ ServerStopped \/ RemoveRendezvous

Next ==
  \/ Publishing \/ Refresh \/ Expire
  \/ \E p \in Peers :
       \/ ReadRendezvous(p) \/ Accept(p) \/ Validated(p) \/ Dropped(p)
       \/ Authenticate(p) \/ Receive(p) \/ SocketClosed(p)
  \/ Start \/ DisableIntegration \/ Close \/ Closing \/ Crash

Spec == Init /\ [][Next]_vars

\* File operations, timers, close events and the steps of close() end by themselves.
FairSpec ==
  /\ Spec /\ WF_vars(Publishing) /\ WF_vars(Closing)
  /\ \A p \in Peers :
       /\ WF_vars(peer[p].at \in {"validating", "waiting"} /\ Dropped(p))
       /\ WF_vars(SocketClosed(p))

-----------------------------------------------------------------------------
(* Properties.                                                             *)

TypeOK ==
  /\ rt \in [phase : Phases, epoch : 0 .. MaxEpochs, token : 0 .. MaxTokens,
             candidate : Peers \cup {None}, active : Peers \cup {None},
             disabled : BOOLEAN, shown : BOOLEAN]
  /\ queue \in Seq(Askers)
  /\ writing \in [asker : Askers, token : Tokens, named : BOOLEAN] \cup {None}
  /\ file \in Entry \cup {None} /\ expired \in 0 .. MaxTokens
  /\ peer \in [Peers -> [at : Stages, entry : Entry \cup {None}]]
  /\ used \in [Tokens -> Nat] /\ abandoned \subseteq Epochs

\* A peer still validated, or still closing, keeps its place: there is never a second
\* connection, none that the runtime does not hold, and what the page is shown of the browser
\* came over the one that is there (connection handler, lines 182, 208 and 227 to 235).
OnePeer ==
  /\ Cardinality(Held) <= 1
  /\ \A p \in Held : p = IF peer[p].at = "active" THEN rt.active ELSE rt.candidate
  /\ rt.candidate = None \/ rt.active = None
  /\ rt.shown => rt.active # None

\* Once the integration is removed or the runtime closes, nobody is validated, may present a
\* token or stays connected, whatever was under way (disableIntegration, close, line 242).
NobodyOnceShut == rt.disabled \/ Closed => Held = {}

\* Who is connected, and what is known of him, is never more than the runtime holds.
Connections == TypeOK /\ OnePeer /\ NobodyOnceShut

\* A token that let a peer in is due to be replaced, however that peer, its publication or an
\* earlier one ends: it lets another in only while its replacement waits for a write under way
\* (lines 212 to 214 and publishTail).
UsedIsReplaced ==
  rt.token # 0 /\ used[rt.token] > 0 /\ Alive /\ ~Closed => queue # <<>>

\* What a runtime that is gone left behind is its file if it crashed or could not unlink it: a
\* publication still waiting when it closes never restores the file (publishTail, close).
NothingLeftBehind ==
  rt.phase = "down" => /\ queue = <<>> /\ writing = None
                       /\ file # None => file.epoch \in abandoned

\* What the runtime published is due to be right, and nothing of it outlives the runtime.
PublicationsHold == UsedIsReplaced /\ NothingLeftBehind

\* The one place is never held for good by a peer that says nothing, and a close that was begun
\* ends, whatever was being validated or written (AUTH_TIMEOUT_MS, attestPeer, close).
WaitsEnd ==
  /\ \A p \in Peers : peer[p].at \in {"validating", "waiting"} ~> peer[p].at \notin {"validating", "waiting"}
  /\ Closed ~> rt.phase = "down"
=============================================================================
