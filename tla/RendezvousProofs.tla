--------------------------- MODULE RendezvousProofs ---------------------------
(***************************************************************************)
(* What Rendezvous promises, for any number of hosts, starts, publications *)
(* and waiting ones.                                                       *)
(*                                                                         *)
(* Seated says that the runtime's two places account for every connection  *)
(* that is neither refused nor destroyed; Published that a file is its     *)
(* runtime's own or one an abandoned runtime left, and that no token let a *)
(* peer in before it was drawn.                                            *)
(***************************************************************************)
EXTENDS Rendezvous, FiniteSetTheorems, SequenceTheorems, TLAPS

Conn == [at : Stages, entry : Entry \cup {None}]
Runtime == [phase : Phases, epoch : 0 .. MaxEpochs, token : 0 .. MaxTokens,
            candidate : Peers \cup {None}, active : Peers \cup {None},
            disabled : BOOLEAN, shown : BOOLEAN]
Writing == [asker : Askers, token : Tokens, named : BOOLEAN]

Seated ==
  /\ \A p \in Held : p = IF peer[p].at = "active" THEN rt.active ELSE rt.candidate
  /\ rt.candidate = None \/ rt.active = None
  /\ rt.shown => rt.active # None
  /\ rt.disabled \/ Closed \/ ~Alive => Held = {}

Published ==
  /\ Alive => rt.epoch >= 1
  /\ file # None => file.epoch = rt.epoch \/ file.epoch \in abandoned
  /\ ~Alive => /\ queue = <<>> /\ writing = None
               /\ file # None => file.epoch \in abandoned
  /\ \A t \in Tokens : used[t] > 0 => t <= LastToken

-----------------------------------------------------------------------------
(* Shapes.                                                                 *)

LEMMA Bounds ==
  /\ MaxEpochs \in Nat \ {0} /\ MaxTokens \in Nat \ {0} /\ MaxQueue \in Nat \ {0}
  /\ None \notin Peers /\ None \notin Nat
  /\ "start" \in Askers /\ "refresh" \in Askers /\ "gone" \in Askers /\ Peers \subseteq Askers
  BY RendezvousAssumption DEF Askers

LEMMA LastTokenType ==
  ASSUME TypeOK
  PROVE  LastToken \in 0 .. MaxTokens /\ LastToken >= rt.token /\ LastToken >= expired
         /\ rt.token \in Nat /\ expired \in Nat
  <1>1. rt.token \in 0 .. MaxTokens /\ expired \in 0 .. MaxTokens BY DEF TypeOK
  <1> QED BY <1>1, Bounds DEF LastToken

\* What is destroyed is held no longer, and nothing else changes.
LEMMA DestroyedHeld ==
  ASSUME TypeOK, NEW S, peer' = Destroyed(peer, S)
  PROVE  /\ peer' \in [Peers -> Conn]
         /\ Held' = Held \ S
         /\ \A p \in Held' : peer'[p] = peer[p]
  <1>1. peer \in [Peers -> Conn] BY DEF TypeOK, Conn
  <1>2. ASSUME NEW p \in Peers
        PROVE  /\ peer'[p] \in Conn
               /\ p \in Held' <=> p \in Held /\ p \notin S
               /\ p \in Held' => peer'[p] = peer[p]
    <2>1. CASE p \in S \cap Held
      <3>1. peer'[p] = [peer[p] EXCEPT !.at = "destroyed"] BY <2>1 DEF Destroyed
      <3>2. peer'[p] \in Conn /\ peer'[p].at = "destroyed" BY <1>1, <3>1 DEF Conn, Stages
      <3> QED BY <2>1, <3>2 DEF Held
    <2>2. CASE p \notin S \cap Held
      <3>1. peer'[p] = peer[p] BY <2>2 DEF Destroyed
      <3> QED BY <1>1, <2>2, <3>1 DEF Held
    <2> QED BY <2>1, <2>2
  <1>3. DOMAIN peer' = Peers /\ peer' = [p \in Peers |-> peer'[p]] BY DEF Destroyed
  <1>4. Held' \subseteq Peers /\ Held \subseteq Peers BY DEF Held
  <1> QED BY <1>2, <1>3, <1>4

\* One connection moves on, or gives up.
LEMMA OneMoves ==
  ASSUME TypeOK, NEW p \in Peers, NEW c \in Conn, peer' = [peer EXCEPT ![p] = c]
  PROVE  /\ peer' \in [Peers -> Conn]
         /\ peer'[p] = c /\ \A q \in Peers \ {p} : peer'[q] = peer[q]
         /\ c.at \in {"validating", "waiting", "active"} => Held' = Held \cup {p}
         /\ c.at \notin {"validating", "waiting", "active"} => Held' = Held \ {p}
  BY DEF TypeOK, Conn, Held

LEMMA NewRuntimeType ==
  ASSUME NEW epoch \in 0 .. MaxEpochs
  PROVE  LET new == NewRuntime(epoch) IN
         /\ new \in Runtime /\ new.epoch = epoch /\ new.phase = "starting" /\ new.token = 0
         /\ new.candidate = None /\ new.active = None /\ ~new.disabled /\ ~new.shown
  BY Bounds DEF NewRuntime, Runtime, Phases

\* The runtime changes its phase only.
LEMMA PhaseType ==
  ASSUME NEW r \in Runtime, NEW phase \in Phases
  PROVE  LET new == [r EXCEPT !.phase = phase] IN
         /\ new \in Runtime /\ new.phase = phase /\ new.epoch = r.epoch /\ new.token = r.token
         /\ new.candidate = r.candidate /\ new.active = r.active
         /\ new.disabled = r.disabled /\ new.shown = r.shown
  BY DEF Runtime

LEMMA InitTyped == Init => TypeOK /\ Seated /\ Published
  <1> SUFFICES ASSUME Init PROVE TypeOK /\ Seated /\ Published
    OBVIOUS
  <1>1. rt \in Runtime /\ rt.phase = "down" /\ ~rt.shown /\ rt.candidate = None
    <2>1. 0 \in 0 .. MaxEpochs /\ "down" \in Phases BY Bounds DEF Phases
    <2> QED BY <2>1, NewRuntimeType, PhaseType DEF Init
  <1>2. peer \in [Peers -> Conn] /\ Held = {} BY DEF Init, Absent, Conn, Stages, Held
  <1>3. queue \in Seq(Askers) /\ 0 \in 0 .. MaxTokens BY Bounds DEF Init
  <1>4. TypeOK BY <1>1, <1>2, <1>3 DEF Init, TypeOK, Runtime, Conn
  <1>5. Seated BY <1>1, <1>2 DEF Seated
  <1>6. Published BY <1>1, Bounds DEF Init, Published, Alive, Tokens
  <1> QED BY <1>4, <1>5, <1>6
-----------------------------------------------------------------------------
(* Steps that leave the two places as they are.                            *)

LEMMA SeatedKept ==
  ASSUME TypeOK, Seated, Held' \subseteq Held, \A p \in Held' : peer'[p].at = peer[p].at,
         rt'.candidate = rt.candidate, rt'.active = rt.active, rt'.shown => rt.shown,
         rt'.disabled \/ Closed' \/ ~Alive' => Held' = {} \/ rt.disabled \/ Closed \/ ~Alive
  PROVE  Seated'
  BY DEF Seated

LEMMA PeersKept ==
  ASSUME TypeOK, Seated, UNCHANGED peer,
         rt'.candidate = rt.candidate, rt'.active = rt.active, rt'.shown = rt.shown,
         rt'.disabled = rt.disabled, rt'.phase = rt.phase
  PROVE  Seated'
  BY SeatedKept DEF Held, Closed, Alive

IInv == TypeOK /\ Seated /\ Published

LEMMA Publishes == ASSUME IInv, Publishing PROVE IInv'
  <1> USE DEF IInv
  <1>0. rt \in Runtime /\ LastToken \in 0 .. MaxTokens /\ LastToken >= rt.token /\ LastToken >= expired
    BY LastTokenType DEF TypeOK, Runtime
  <1>1. CASE BeginPublication
    <2>1. Head(queue) \in Askers /\ Tail(queue) \in Seq(Askers)
      BY <1>1, HeadTailProperties DEF BeginPublication, TypeOK
    <2>2. Alive BY <1>1 DEF BeginPublication, Published
    <2>3. CASE Closed
      <3>1. UNCHANGED <<rt, writing, file, expired, peer, used, abandoned>> BY <1>1, <2>3 DEF BeginPublication
      <3>2. queue' = Tail(queue) BY <1>1 DEF BeginPublication
      <3>3. TypeOK' BY <2>1, <3>1, <3>2 DEF TypeOK
      <3>4. Seated' BY <3>1, PeersKept
      <3>5. Published' BY <2>2, <3>1 DEF Published, Alive, LastToken
      <3> QED BY <3>3, <3>4, <3>5
    <2>4. CASE ~Closed
      <3> DEFINE token == LastToken + 1
      <3>1. token \in Tokens /\ token \in 0 .. MaxTokens
        BY <1>0, <1>1, <2>4, Bounds DEF BeginPublication, Tokens
      <3>2. rt' = [rt EXCEPT !.token = token] BY <1>1, <2>4 DEF BeginPublication
      <3>3. /\ rt' \in Runtime /\ rt'.token = token
            /\ rt'.candidate = rt.candidate /\ rt'.active = rt.active /\ rt'.shown = rt.shown
            /\ rt'.disabled = rt.disabled /\ rt'.phase = rt.phase /\ rt'.epoch = rt.epoch
        BY <1>0, <3>1, <3>2 DEF Runtime
      <3>4. writing' \in Writing
        <4>1. writing' = [asker |-> Head(queue), token |-> token, named |-> FALSE]
          BY <1>1, <2>4 DEF BeginPublication
        <4> QED BY <2>1, <3>1, <4>1 DEF Writing
      <3>5. queue' \in Seq(Askers) /\ UNCHANGED <<file, expired, peer, used, abandoned>>
        BY <1>1, <2>1 DEF BeginPublication
      <3>6. TypeOK' BY <3>3, <3>4, <3>5 DEF TypeOK, Runtime, Writing
      <3>7. Seated' BY <3>3, <3>5, PeersKept
      <3>8. LastToken' >= LastToken BY <1>0, <3>1, <3>3, <3>5, LastTokenType DEF LastToken
      <3>9. Published'
        <4>1. LastToken' \in 0 .. MaxTokens BY <3>6, LastTokenType DEF LastToken, TypeOK
        <4>2. \A t \in Tokens : used'[t] > 0 => t <= LastToken'
          BY <1>0, <3>5, <3>8, <4>1, Bounds DEF Published, Tokens
        <4> QED BY <2>2, <3>3, <3>5, <4>2 DEF Published, Alive
      <3> QED BY <3>6, <3>7, <3>9
    <2> QED BY <2>3, <2>4
  <1>2. CASE RenamePublication
    <2>1. Alive /\ rt.epoch \in Epochs /\ writing \in Writing
      <3>1. Alive BY <1>2 DEF RenamePublication, Published
      <3> QED BY <1>0, <1>2, <3>1, Bounds DEF RenamePublication, Published, Runtime, Epochs, TypeOK, Writing
    <2>2. file' \in Entry /\ file'.epoch = rt.epoch BY <1>2, <2>1 DEF RenamePublication, Entry, Writing
    <2>3. writing' \in Writing BY <1>2, <2>1 DEF RenamePublication, Writing
    <2>4. TypeOK' BY <1>2, <2>2, <2>3 DEF RenamePublication, TypeOK, Writing
    <2>5. Seated' BY <1>2, PeersKept DEF RenamePublication
    <2>6. Published' BY <1>2, <2>1, <2>2 DEF RenamePublication, Published, Alive, LastToken
    <2> QED BY <2>4, <2>5, <2>6
  <1>3. CASE EndPublication \/ PublicationFails
    <2>1. writing # None /\ writing' = None /\ UNCHANGED <<queue, file, expired, used, abandoned>>
      BY <1>3 DEF EndPublication, PublicationFails
    <2>2. Alive BY <2>1 DEF Published
    <2>3. /\ rt' \in Runtime
          /\ rt'.candidate = rt.candidate /\ rt'.active = rt.active /\ rt'.shown = rt.shown
          /\ rt'.disabled = rt.disabled /\ rt'.epoch = rt.epoch /\ rt'.token = rt.token
          /\ rt'.phase \in {rt.phase, "running", "stranded"}
      <3>1. rt = [rt EXCEPT !.phase = rt.phase] BY <1>0 DEF Runtime
      <3>2. PICK phase \in {rt.phase, "running", "stranded"} : rt' = [rt EXCEPT !.phase = phase]
        BY <1>3, <3>1 DEF EndPublication, PublicationFails
      <3>3. phase \in Phases BY <1>0, <3>2 DEF Phases, Runtime
      <3> QED BY <1>0, <3>2, <3>3, PhaseType
    <2>4. peer' = peer \/ \E S \in {{rt.active}, {writing.asker}} : peer' = Destroyed(peer, S)
      BY <1>3 DEF EndPublication, PublicationFails
    <2>5. /\ peer' \in [Peers -> Conn] /\ Held' \subseteq Held
          /\ \A p \in Held' : peer'[p] = peer[p]
      <3>1. CASE peer' = peer BY <3>1 DEF Held, TypeOK, Conn
      <3> QED BY <2>4, <3>1, DestroyedHeld
    <2>6. TypeOK' BY <2>1, <2>3, <2>5 DEF TypeOK, Runtime, Conn
    <2>7. Alive' /\ (Closed' => Closed) BY <2>2, <2>3 DEF Alive, Closed
    <2>8. Seated' BY <2>3, <2>5, <2>7, SeatedKept
    <2>9. Published' BY <2>1, <2>2, <2>3, <2>7 DEF Published, LastToken
    <2> QED BY <2>6, <2>8, <2>9
  <1> QED BY <1>1, <1>2, <1>3 DEF Publishing

LEMMA TimePasses == ASSUME IInv, Refresh \/ Expire PROVE IInv'
  <1> USE DEF IInv
  <1>1. CASE Refresh
    <2>1. queue' \in Seq(Askers) BY <1>1, Bounds, AppendProperties DEF Refresh, TypeOK
    <2>2. TypeOK' BY <1>1, <2>1 DEF Refresh, TypeOK
    <2>3. Seated' BY <1>1, PeersKept DEF Refresh
    <2>4. Published' BY <1>1 DEF Refresh, Published, Alive, LastToken
    <2> QED BY <2>2, <2>3, <2>4
  <1>2. CASE Expire
    <2>1. rt.token \in 0 .. MaxTokens /\ expired \in 0 .. MaxTokens /\ LastToken = rt.token
      BY <1>2 DEF TypeOK, Expire, LastToken
    <2>2. expired' \in 0 .. MaxTokens /\ LastToken' = rt.token
      BY <1>2, <2>1, Bounds DEF Expire, LastToken
    <2>3. TypeOK' BY <1>2, <2>2 DEF Expire, TypeOK
    <2>4. Seated' BY <1>2, PeersKept DEF Expire
    <2>5. Published' BY <1>2, <2>1, <2>2 DEF Expire, Published, Alive
    <2> QED BY <2>3, <2>4, <2>5
  <1> QED BY <1>1, <1>2
-----------------------------------------------------------------------------
(* Connections.                                                            *)

LEMMA PublishedKept ==
  ASSUME Published, UNCHANGED <<file, expired, used, abandoned>>, queue' = queue \/ Alive, writing' = writing,
         rt'.phase = rt.phase, rt'.epoch = rt.epoch, rt'.token = rt.token
  PROVE  Published'
  BY DEF Published, Alive, LastToken

\* The one peer that reads, connects, is validated or dropped.
LEMMA Connects ==
  ASSUME IInv, NEW p \in Peers,
         ReadRendezvous(p) \/ Accept(p) \/ Validated(p) \/ Dropped(p)
  PROVE  IInv'
  <1> USE DEF IInv
  <1>0. peer[p] \in Conn /\ rt \in Runtime BY DEF TypeOK, Conn, Runtime
  <1>1. CASE ReadRendezvous(p)
    <2> DEFINE c == [at |-> "read", entry |-> file]
    <2>1. c \in Conn /\ c.at = "read" /\ peer' = [peer EXCEPT ![p] = c]
      BY <1>1 DEF ReadRendezvous, TypeOK, Conn, Stages
    <2> HIDE DEF c
    <2>2. peer' \in [Peers -> Conn] /\ Held' = Held \ {p} /\ \A q \in Peers \ {p} : peer'[q] = peer[q]
      BY <2>1, OneMoves
    <2>3. TypeOK' BY <1>1, <2>2 DEF ReadRendezvous, TypeOK, Conn
    <2>4. UNCHANGED <<rt, queue, writing, file, expired, used, abandoned>> BY <1>1 DEF ReadRendezvous
    <2>5. Seated' /\ Published'
      BY <2>2, <2>4, SeatedKept, PublishedKept DEF Held, Closed, Alive
    <2> QED BY <2>3, <2>5
  <1>2. CASE Accept(p) /\ peer' = [peer EXCEPT ![p] = Absent] /\ UNCHANGED rt
    <2>1. Absent \in Conn /\ Absent.at = "idle" BY DEF Absent, Conn, Stages
    <2>2. peer' \in [Peers -> Conn] /\ Held' = Held \ {p} /\ \A q \in Peers \ {p} : peer'[q] = peer[q]
      BY <1>2, <2>1, OneMoves
    <2>3. UNCHANGED <<rt, queue, writing, file, expired, used, abandoned>> BY <1>2 DEF Accept
    <2>4. TypeOK' BY <2>2, <2>3 DEF TypeOK, Conn
    <2>5. Seated' /\ Published'
      BY <2>2, <2>3, SeatedKept, PublishedKept DEF Held, Closed, Alive
    <2> QED BY <2>4, <2>5
  <1>3. CASE /\ Accept(p) /\ ~Closed /\ ~rt.disabled /\ rt.candidate = None /\ rt.active = None
             /\ Listening /\ rt' = [rt EXCEPT !.candidate = p]
             /\ peer' = [peer EXCEPT ![p].at = "validating"]
    <2> DEFINE c == [peer[p] EXCEPT !.at = "validating"]
    <2>1. c \in Conn /\ c.at = "validating" /\ peer' = [peer EXCEPT ![p] = c]
      BY <1>0, <1>3 DEF Conn, Stages
    <2> HIDE DEF c
    <2>2. /\ peer' \in [Peers -> Conn] /\ Held' = Held \cup {p} /\ peer'[p].at = "validating"
          /\ \A q \in Peers \ {p} : peer'[q] = peer[q]
      BY <2>1, OneMoves
    <2>3. Held = {} BY <1>3, Bounds DEF Seated, Held
    <2>4. /\ rt' \in Runtime /\ rt'.candidate = p /\ rt'.active = rt.active /\ rt'.shown = rt.shown
          /\ rt'.disabled = rt.disabled /\ rt'.phase = rt.phase /\ rt'.epoch = rt.epoch /\ rt'.token = rt.token
      BY <1>0, <1>3 DEF Runtime
    <2>5. UNCHANGED <<queue, writing, file, expired, used, abandoned>> BY <1>3 DEF Accept
    <2>6. TypeOK' BY <2>2, <2>4, <2>5 DEF TypeOK, Conn, Runtime
    <2>7. ~rt.shown BY <1>3 DEF Seated
    <2>8. Alive BY <1>3 DEF Listening, Alive
    <2>9. Seated' BY <1>3, <2>2, <2>3, <2>4, <2>7, <2>8 DEF Seated, Closed, Alive
    <2>10. Published' BY <2>4, <2>5, PublishedKept
    <2> QED BY <2>6, <2>9, <2>10
  <1>4. CASE Validated(p) /\ peer' = [peer EXCEPT ![p].at = "waiting"]
    <2> DEFINE c == [peer[p] EXCEPT !.at = "waiting"]
    <2>1. c \in Conn /\ c.at = "waiting" /\ peer' = [peer EXCEPT ![p] = c]
      BY <1>0, <1>4 DEF Conn, Stages
    <2> HIDE DEF c
    <2>2. /\ peer' \in [Peers -> Conn] /\ Held' = Held \cup {p} /\ peer'[p].at = "waiting"
          /\ \A q \in Peers \ {p} : peer'[q] = peer[q]
      BY <2>1, OneMoves
    <2>3. p \in Held /\ peer[p].at # "active" BY <1>4 DEF Validated, Held
    <2>4. UNCHANGED <<rt, queue, writing, file, expired, used, abandoned>> BY <1>4 DEF Validated
    <2>5. TypeOK' BY <2>2, <2>4 DEF TypeOK, Conn
    <2>6. Seated' BY <2>2, <2>3, <2>4 DEF Seated, Closed, Alive, Held
    <2>7. Published' BY <2>4, PublishedKept
    <2> QED BY <2>5, <2>6, <2>7
  <1>5. CASE (Validated(p) \/ Dropped(p)) /\ peer' = Destroyed(peer, {p})
    <2>1. peer' \in [Peers -> Conn] /\ Held' = Held \ {p} /\ \A q \in Held' : peer'[q] = peer[q]
      BY <1>5, DestroyedHeld
    <2>2. UNCHANGED <<rt, queue, writing, file, expired, used, abandoned>>
      BY <1>5 DEF Validated, Dropped
    <2>3. TypeOK' BY <2>1, <2>2 DEF TypeOK, Conn
    <2>4. Seated' /\ Published' BY <2>1, <2>2, SeatedKept, PublishedKept DEF Closed, Alive
    <2> QED BY <2>3, <2>4
  <1> QED BY <1>1, <1>2, <1>3, <1>4, <1>5 DEF Accept, Validated, Dropped

\* It presents the token, is heard, or closes.
LEMMA Authenticates == ASSUME IInv, NEW p \in Peers, Authenticate(p) PROVE IInv'
  <1> USE DEF IInv
  <1>0. peer[p] \in Conn /\ rt \in Runtime BY DEF TypeOK, Conn, Runtime
  <1>1. CASE peer' = Destroyed(peer, {p}) /\ UNCHANGED <<rt, used, queue>>
    <2>1. peer' \in [Peers -> Conn] /\ Held' = Held \ {p} /\ \A q \in Held' : peer'[q] = peer[q]
      BY <1>1, DestroyedHeld
    <2>2. UNCHANGED <<rt, queue, writing, file, expired, used, abandoned>> BY <1>1 DEF Authenticate
    <2>3. TypeOK' BY <2>1, <2>2 DEF TypeOK, Conn
    <2>4. Seated' /\ Published' BY <2>1, <2>2, SeatedKept, PublishedKept DEF Closed, Alive
    <2> QED BY <2>3, <2>4
  <1>2. CASE /\ rt.active = None /\ rt.token > expired
             /\ rt' = [rt EXCEPT !.candidate = None, !.active = p]
             /\ peer' = [peer EXCEPT ![p].at = "active"]
             /\ used' = [used EXCEPT ![rt.token] = @ + 1] /\ queue' = Append(queue, p)
    <2> DEFINE c == [peer[p] EXCEPT !.at = "active"]
    <2>1. c \in Conn /\ c.at = "active" /\ peer' = [peer EXCEPT ![p] = c]
      BY <1>0, <1>2 DEF Conn, Stages
    <2> HIDE DEF c
    <2>2. /\ peer' \in [Peers -> Conn] /\ Held' = Held \cup {p} /\ peer'[p].at = "active"
          /\ \A q \in Peers \ {p} : peer'[q] = peer[q]
      BY <2>1, OneMoves
    <2>3. p \in Held /\ peer[p].at = "waiting" /\ rt.candidate = p BY DEF Authenticate, Held, Seated
    <2>4. Held = {p} /\ ~rt.disabled /\ ~Closed /\ Alive BY <1>2, <2>3, Bounds DEF Seated, Held
    <2>5. /\ rt' \in Runtime /\ rt'.candidate = None /\ rt'.active = p /\ rt'.shown = rt.shown
          /\ rt'.disabled = rt.disabled /\ rt'.phase = rt.phase /\ rt'.epoch = rt.epoch /\ rt'.token = rt.token
      BY <1>0, <1>2 DEF Runtime
    <2>6. UNCHANGED <<writing, file, expired, abandoned>> BY DEF Authenticate
    <2>7. rt.token \in Tokens /\ rt.token <= LastToken
      BY <1>0, <1>2, LastTokenType, Bounds DEF Tokens, Runtime
    <2>8. used' \in [Tokens -> Nat] /\ \A t \in Tokens : used'[t] > 0 => t <= LastToken
      BY <1>2, <2>7 DEF TypeOK, Published
    <2>9. queue' \in Seq(Askers) BY <1>2, Bounds, AppendProperties DEF TypeOK
    <2>10. TypeOK' BY <2>2, <2>5, <2>6, <2>8, <2>9 DEF TypeOK, Conn, Runtime
    <2>11. Seated' BY <2>2, <2>4, <2>5, Bounds DEF Seated, Closed, Alive
    <2>12. Published' BY <2>4, <2>5, <2>6, <2>8 DEF Published, Alive, LastToken
    <2> QED BY <2>10, <2>11, <2>12
  <1> QED BY <1>1, <1>2 DEF Authenticate

LEMMA Receives == ASSUME IInv, NEW p \in Peers, Receive(p) PROVE IInv'
  <1> USE DEF IInv
  <1>1. rt \in Runtime BY DEF TypeOK, Runtime
  <1>2. p \in Held /\ rt.active = p /\ rt.active # None BY Bounds DEF Receive, Held, Seated
  <1>3. /\ rt' \in Runtime /\ rt'.candidate = rt.candidate /\ rt'.active = rt.active
        /\ rt'.disabled = rt.disabled /\ rt'.phase = rt.phase /\ rt'.epoch = rt.epoch /\ rt'.token = rt.token
    BY <1>1 DEF Receive, Runtime
  <1>4. UNCHANGED <<queue, writing, file, expired, peer, used, abandoned>> BY DEF Receive
  <1>5. TypeOK' BY <1>3, <1>4 DEF TypeOK, Runtime
  <1>6. Seated' BY <1>2, <1>3, <1>4 DEF Seated, Held, Closed, Alive
  <1>7. Published' BY <1>3, <1>4, PublishedKept
  <1> QED BY <1>5, <1>6, <1>7

LEMMA Closes == ASSUME IInv, NEW p \in Peers, SocketClosed(p) PROVE IInv'
  <1> USE DEF IInv
  <1>1. rt \in Runtime /\ Absent \in Conn /\ Absent.at = "idle" /\ peer' = [peer EXCEPT ![p] = Absent]
    BY DEF TypeOK, Runtime, Absent, Conn, Stages, SocketClosed
  <1>2. peer' \in [Peers -> Conn] /\ Held' = Held \ {p} /\ \A q \in Peers \ {p} : peer'[q] = peer[q]
    BY <1>1, OneMoves
  <1>3. p \notin Held BY DEF SocketClosed, Held
  <1>4. /\ rt' \in Runtime
        /\ rt'.candidate = (IF rt.candidate = p THEN None ELSE rt.candidate)
        /\ rt'.active = (IF rt.active = p THEN None ELSE rt.active)
        /\ rt'.shown = FALSE /\ rt'.disabled = rt.disabled
        /\ rt'.phase = rt.phase /\ rt'.epoch = rt.epoch /\ rt'.token = rt.token
    BY <1>1 DEF SocketClosed, Runtime
  <1>5. /\ Len(queue) \in Nat /\ DOMAIN queue = 1 .. Len(queue) /\ \A i \in DOMAIN queue : queue[i] \in Askers
        /\ queue = <<>> <=> Len(queue) = 0
    BY LenProperties, ElementOfSeq, EmptySeq DEF TypeOK
  <1>6. queue' \in Seq(Askers) /\ (queue = <<>> => queue' = <<>>)
    <2>1. queue' = [i \in 1 .. Len(queue) |-> Forget(queue[i], p)] BY <1>5 DEF SocketClosed
    <2>2. \A i \in 1 .. Len(queue) : Forget(queue[i], p) \in Askers BY <1>5, Bounds DEF Forget
    <2>3. queue' \in Seq(Askers) /\ Len(queue') = Len(queue) BY <1>5, <2>1, <2>2, IsASeq, LenProperties
    <2> QED BY <1>5, <2>3, EmptySeq
  <1>7. writing' \in Writing \cup {None} /\ (writing = None => writing' = None)
    BY Bounds DEF SocketClosed, TypeOK, Writing, Forget
  <1>8. UNCHANGED <<file, expired, used, abandoned>> BY DEF SocketClosed
  <1>9. TypeOK' BY <1>2, <1>4, <1>6, <1>7, <1>8 DEF TypeOK, Conn, Runtime, Writing
  <1>10. Seated'
    <2>1. Held' = Held /\ \A q \in Held : peer'[q] = peer[q] BY <1>2, <1>3 DEF Held
    <2> QED BY <1>3, <1>4, <2>1 DEF Seated, Closed, Alive
  <1>11. Published' BY <1>4, <1>6, <1>7, <1>8 DEF Published, Alive, LastToken
  <1> QED BY <1>9, <1>10, <1>11
-----------------------------------------------------------------------------
(* The life of the runtime.                                                *)

LEMMA Starts == ASSUME IInv, Start PROVE IInv'
  <1> USE DEF IInv
  <1> DEFINE new == NewRuntime(rt.epoch + 1)
  <1>1. ~Alive /\ rt.epoch + 1 \in 0 .. MaxEpochs /\ rt.epoch + 1 >= 1
    BY Bounds DEF Start, Alive, TypeOK
  <1>2. /\ new \in Runtime /\ new.epoch >= 1 /\ new.phase = "starting" /\ new.token = 0
        /\ new.candidate = None /\ new.active = None /\ ~new.shown
    BY <1>1, NewRuntimeType
  <1>3. rt' = new /\ expired' = LastToken /\ queue' = <<"start">>
        /\ UNCHANGED <<writing, file, peer, used, abandoned>>
    BY DEF Start
  <1> HIDE DEF new
  <1>4. LastToken \in 0 .. MaxTokens /\ LastToken' = LastToken
    BY <1>2, <1>3, LastTokenType DEF LastToken
  <1>5. <<"start">> \in Seq(Askers) BY Bounds
  <1>6. TypeOK' BY <1>2, <1>3, <1>4, <1>5 DEF TypeOK, Runtime
  <1>7. Held = {} /\ Held' = {} BY <1>1, <1>3 DEF Seated, Held
  <1>8. Seated' BY <1>2, <1>3, <1>7 DEF Seated
  <1>9. Published' BY <1>1, <1>2, <1>3, <1>4 DEF Published, Alive
  <1> QED BY <1>6, <1>8, <1>9

LEMMA Shuts == ASSUME IInv, DisableIntegration \/ Close PROVE IInv'
  <1> USE DEF IInv
  <1>1. rt \in Runtime /\ peer' = Destroyed(peer, {rt.candidate, rt.active})
        /\ UNCHANGED <<queue, writing, file, expired, used, abandoned>>
    BY DEF DisableIntegration, Close, TypeOK, Runtime
  <1>2. peer' \in [Peers -> Conn] /\ Held' = Held \ {rt.candidate, rt.active}
    BY <1>1, DestroyedHeld
  <1>3. Held' = {} BY <1>2 DEF Seated, Held
  <1>4. /\ rt' \in Runtime /\ rt'.candidate = rt.candidate /\ rt'.active = rt.active
        /\ rt'.shown => rt.shown
        /\ rt'.epoch = rt.epoch /\ rt'.token = rt.token
        /\ Alive /\ Alive'
    BY <1>1 DEF DisableIntegration, Close, Runtime, Phases, Alive
  <1>5. TypeOK' BY <1>1, <1>2, <1>4 DEF TypeOK, Conn, Runtime
  <1>6. Seated' BY <1>3, <1>4, SeatedKept
  <1>7. Published' BY <1>1, <1>4 DEF Published, LastToken
  <1> QED BY <1>5, <1>6, <1>7

LEMMA ClosingEnds == ASSUME IInv, Closing \/ Crash PROVE IInv'
  <1> USE DEF IInv
  <1>0. rt \in Runtime BY DEF TypeOK, Runtime
  <1>1. CASE StopServer \/ ServerStopped
    <2>1. /\ rt' \in Runtime /\ rt'.candidate = rt.candidate /\ rt'.active = rt.active
          /\ rt'.shown = rt.shown /\ rt'.disabled = rt.disabled
          /\ rt'.epoch = rt.epoch /\ rt'.token = rt.token
          /\ Closed /\ Closed' /\ Alive /\ Alive'
      BY <1>0, <1>1 DEF StopServer, ServerStopped, Runtime, Phases, Alive, Closed
    <2>2. UNCHANGED <<queue, writing, file, expired, peer, used, abandoned>>
      BY <1>1 DEF StopServer, ServerStopped
    <2>3. TypeOK' BY <2>1, <2>2 DEF TypeOK, Runtime
    <2>4. Seated' BY <2>1, <2>2, SeatedKept DEF Held
    <2>5. Published' BY <2>1, <2>2 DEF Published, LastToken
    <2> QED BY <2>3, <2>4, <2>5
  <1>2. CASE RemoveRendezvous
    <2>1. /\ rt' \in Runtime /\ rt'.candidate = rt.candidate /\ rt'.active = rt.active
          /\ rt'.shown = rt.shown /\ rt'.disabled = rt.disabled
          /\ rt'.epoch = rt.epoch /\ rt'.token = rt.token
          /\ Closed /\ Alive /\ ~Alive'
      BY <1>0, <1>2 DEF RemoveRendezvous, Runtime, Phases, Alive, Closed
    <2>2. UNCHANGED <<queue, writing, expired, peer, used>> BY <1>2 DEF RemoveRendezvous
    <2>3. rt.epoch \in Epochs BY <1>0, <2>1, Bounds DEF Published, Runtime, Epochs
    <2>4. file' \in {file, None} /\ abandoned' \in {abandoned, abandoned \cup {rt.epoch}}
      BY <1>2 DEF RemoveRendezvous
    <2>5. TypeOK' BY <2>1, <2>2, <2>3, <2>4 DEF TypeOK, Runtime
    <2>6. Seated' BY <2>1, <2>2, SeatedKept DEF Held
    <2>7. file' # None => file'.epoch \in abandoned' BY <1>2 DEF RemoveRendezvous, Published
    <2>8. Published' BY <1>2, <2>1, <2>2, <2>7 DEF RemoveRendezvous, Published, LastToken
    <2> QED BY <2>5, <2>6, <2>8
  <1>3. CASE Crash
    <2> DEFINE new == NewRuntime(rt.epoch)
               gone == [new EXCEPT !.phase = "down", !.token = rt.token]
    <2>1. /\ new \in Runtime /\ new.epoch = rt.epoch /\ new.candidate = None /\ new.active = None
          /\ ~new.shown
      BY <1>0, NewRuntimeType DEF Runtime
    <2>2. rt' = gone BY <1>3 DEF Crash
    <2> HIDE DEF new
    <2>3. /\ gone \in Runtime /\ gone.epoch = rt.epoch /\ gone.token = rt.token /\ gone.phase = "down"
          /\ gone.candidate = None /\ gone.active = None /\ ~gone.shown
      BY <1>0, <2>1 DEF Runtime, Phases
    <2> HIDE DEF gone
    <2>4. /\ queue' = <<>> /\ writing' = None /\ peer' = [p \in Peers |-> Absent]
          /\ abandoned' = abandoned \cup {rt.epoch} /\ UNCHANGED <<file, expired, used>>
      BY <1>3 DEF Crash
    <2>5. Alive /\ rt.epoch \in Epochs BY <1>0, <1>3, Bounds DEF Crash, Published, Runtime, Epochs
    <2>6. peer' \in [Peers -> Conn] /\ Held' = {} BY <2>4 DEF Absent, Conn, Stages, Held
    <2>7. TypeOK' BY <2>2, <2>3, <2>4, <2>5, <2>6 DEF TypeOK, Runtime, Conn
    <2>8. Seated' BY <2>2, <2>3, <2>6 DEF Seated
    <2>9. Published' BY <2>2, <2>3, <2>4 DEF Published, Alive, LastToken
    <2> QED BY <2>7, <2>8, <2>9
  <1> QED BY <1>1, <1>2, <1>3 DEF Closing

LEMMA Stutters == ASSUME IInv, UNCHANGED vars PROVE IInv'
  BY DEF IInv, vars, TypeOK, Seated, Published, Held, Closed, Alive, LastToken

LEMMA Inductive == IInv /\ [Next]_vars => IInv'
  <1> SUFFICES ASSUME IInv, [Next]_vars PROVE IInv'
    OBVIOUS
  <1> QED BY Publishes, TimePasses, Connects, Authenticates, Receives, Closes, Starts, Shuts,
        ClosingEnds, Stutters DEF Next

LEMMA Always == Spec => []IInv
  <1>1. Init => IInv BY InitTyped DEF IInv
  <1> QED BY <1>1, Inductive, PTL DEF Spec

\* There is never a second connection nor one the runtime does not hold, and none at all once the
\* integration is removed or the runtime closes, whatever was under way (connection handler,
\* disableIntegration, close).
THEOREM OneConnection == Spec => []Connections
  <1>1. ASSUME IInv PROVE Connections
    <2>1. Cardinality(Held) <= 1
      <3>1. PICK q \in Peers \cup {None} : Held \subseteq {q}
        <4>1. CASE rt.candidate = None
          <5>1. Held \subseteq {rt.active} /\ rt.active \in Peers \cup {None}
            BY <1>1, <4>1, Bounds DEF IInv, TypeOK, Seated, Held
          <5> QED BY <5>1
        <4>2. CASE rt.active = None
          <5>1. Held \subseteq {rt.candidate} /\ rt.candidate \in Peers \cup {None}
            BY <1>1, <4>2, Bounds DEF IInv, TypeOK, Seated, Held
          <5> QED BY <5>1
        <4> QED BY <1>1, <4>1, <4>2 DEF IInv, Seated
      <3>2. IsFiniteSet({q}) /\ Cardinality({q}) = 1 BY FS_Singleton
      <3>3. Cardinality(Held) <= Cardinality({q}) BY <3>1, <3>2, FS_Subset
      <3> QED BY <3>2, <3>3
    <2>2. OnePeer BY <1>1, <2>1 DEF IInv, Seated, OnePeer
    <2>3. NobodyOnceShut BY <1>1 DEF IInv, Seated, NobodyOnceShut
    <2> QED BY <1>1, <2>2, <2>3 DEF IInv, Connections
  <1> QED BY <1>1, Always, PTL
-----------------------------------------------------------------------------
(***************************************************************************)
(* Publications: only an authentication uses a token, and the same step    *)
(* asks for its replacement, which only a new token takes out of the       *)
(* queue; no publication of a start outlasts it and reopens a runtime.     *)
(***************************************************************************)

Starting ==
  /\ \A i \in DOMAIN queue : queue[i] = "start" => i = 1 /\ writing = None /\ rt.phase = "starting"
  /\ writing # None /\ writing.asker = "start" => rt.phase = "starting"

\* One more asks, or the first has its turn.
LEMMA QueueStep ==
  ASSUME TypeOK, Starting
  PROVE  /\ \A x \in Askers \ {"start"} : \A i \in DOMAIN Append(queue, x) :
              Append(queue, x)[i] = "start" => i \in DOMAIN queue /\ queue[i] = "start"
         /\ queue # <<>> =>
              /\ Head(queue) = "start" => rt.phase = "starting"
              /\ \A i \in DOMAIN Tail(queue) : Tail(queue)[i] # "start"
  <1>1. queue \in Seq(Askers) BY DEF TypeOK
  <1>2. DOMAIN queue = 1 .. Len(queue) /\ Len(queue) \in Nat BY <1>1, LenProperties
  <1>3. ASSUME NEW x \in Askers \ {"start"}, NEW i \in DOMAIN Append(queue, x), Append(queue, x)[i] = "start"
        PROVE  i \in DOMAIN queue /\ queue[i] = "start"
    <2>1. /\ Append(queue, x) \in Seq(Askers) /\ Len(Append(queue, x)) = Len(queue) + 1
          /\ \A j \in 1 .. Len(queue) : Append(queue, x)[j] = queue[j]
          /\ Append(queue, x)[Len(queue) + 1] = x
      BY <1>1, AppendProperties
    <2>2. i \in 1 .. Len(queue) + 1 BY <1>3, <2>1, LenProperties
    <2> QED BY <1>2, <1>3, <2>1, <2>2
  <1>4. ASSUME queue # <<>>
        PROVE  /\ Head(queue) = "start" => rt.phase = "starting"
               /\ \A i \in DOMAIN Tail(queue) : Tail(queue)[i] # "start"
    <2>1. Len(queue) > 0 /\ Head(queue) = queue[1] BY <1>1, <1>2, <1>4, HeadTailProperties
    <2>2. /\ Tail(queue) \in Seq(Askers) /\ Len(Tail(queue)) = Len(queue) - 1
          /\ \A i \in 1 .. Len(Tail(queue)) : Tail(queue)[i] = queue[i + 1]
      BY <1>1, <1>4, HeadTailProperties
    <2>3. ASSUME NEW i \in DOMAIN Tail(queue) PROVE Tail(queue)[i] # "start"
      <3>1. i \in 1 .. Len(Tail(queue)) BY <2>2, LenProperties
      <3>2. i + 1 \in DOMAIN queue /\ i + 1 # 1 BY <1>2, <2>2, <3>1
      <3> QED BY <2>2, <3>1, <3>2 DEF Starting
    <2> QED BY <1>2, <2>1, <2>3 DEF Starting
  <1> QED BY <1>3, <1>4

LEMMA StartingKept == ASSUME IInv, Starting, [Next]_vars PROVE Starting'
  <1> USE DEF IInv
  <1>0. rt \in Runtime /\ queue \in Seq(Askers) BY DEF TypeOK, Runtime
  <1>1. ASSUME queue' = queue, writing' = writing, rt'.phase = rt.phase \/ rt.phase # "starting"
        PROVE  Starting'
    BY <1>1 DEF Starting
  <1>2. ASSUME NEW x \in Askers \ {"start"}, queue' = Append(queue, x), writing' = writing, rt'.phase = rt.phase
        PROVE  Starting'
    BY <1>2, QueueStep DEF Starting
  <1>3. CASE BeginPublication
    <2>1. rt'.phase = rt.phase BY <1>0, <1>3 DEF BeginPublication, Runtime
    <2>2. /\ queue # <<>> /\ queue' = Tail(queue)
          /\ writing' = writing \/ (writing' # None => writing'.asker = Head(queue))
      BY <1>3 DEF BeginPublication
    <2> QED BY <2>1, <2>2, QueueStep DEF Starting
  <1>4. CASE RenamePublication
    <2>1. writing \in Writing /\ UNCHANGED <<rt, queue>> /\ writing # None
      BY <1>4 DEF RenamePublication, TypeOK, Writing
    <2>2. writing'.asker = writing.asker BY <1>4, <2>1 DEF RenamePublication, Writing
    <2> QED BY <2>1, <2>2 DEF Starting
  <1>5. CASE EndPublication \/ PublicationFails
    <2>1. writing # None /\ writing' = None /\ queue' = queue BY <1>5 DEF EndPublication, PublicationFails
    <2> QED BY <2>1 DEF Starting
  <1>6. CASE Refresh BY <1>2, <1>6, Bounds DEF Refresh
  <1>7. CASE Expire BY <1>1, <1>7 DEF Expire
  <1>8. ASSUME NEW p \in Peers PROVE p \in Askers \ {"start"} BY RendezvousAssumption DEF Askers
  <1>9. ASSUME NEW p \in Peers,
               ReadRendezvous(p) \/ Accept(p) \/ Validated(p) \/ Dropped(p) \/ Receive(p)
        PROVE  Starting'
    <2>1. queue' = queue /\ writing' = writing /\ rt'.phase = rt.phase
      BY <1>0, <1>9 DEF ReadRendezvous, Accept, Validated, Dropped, Receive, Runtime
    <2> QED BY <1>1, <2>1
  <1>10. ASSUME NEW p \in Peers, Authenticate(p) PROVE Starting'
    <2>1. /\ queue' = queue \/ queue' = Append(queue, p)
          /\ writing' = writing /\ rt'.phase = rt.phase
      BY <1>0, <1>10 DEF Authenticate, Runtime
    <2> QED BY <1>1, <1>2, <1>8, <2>1
  <1>11. ASSUME NEW p \in Peers, SocketClosed(p) PROVE Starting'
    <2>1. rt'.phase = rt.phase BY <1>0, <1>11 DEF SocketClosed, Runtime
    <2>2. DOMAIN queue' = DOMAIN queue /\ \A i \in DOMAIN queue : queue'[i] = "start" => queue[i] = "start"
      BY <1>11 DEF SocketClosed, Forget
    <2>3. writing = None => writing' = None BY <1>11 DEF SocketClosed
    <2>4. writing' # None /\ writing'.asker = "start" => writing # None /\ writing.asker = "start"
      BY <1>11 DEF SocketClosed, TypeOK, Forget
    <2> QED BY <2>1, <2>2, <2>3, <2>4 DEF Starting
  <1>12. CASE Start
    <2>1. rt'.phase = "starting" /\ queue' = <<"start">> /\ writing' = None
      BY <1>12 DEF Start, NewRuntime, Published, Alive
    <2> QED BY <2>1 DEF Starting
  <1>13. CASE DisableIntegration \/ Close \/ StopServer \/ ServerStopped \/ RemoveRendezvous
    <2>1. queue' = queue /\ writing' = writing /\ rt.phase # "starting"
      BY <1>13 DEF DisableIntegration, Close, StopServer, ServerStopped, RemoveRendezvous
    <2> QED BY <1>1, <2>1
  <1>14. CASE Crash BY <1>14 DEF Crash, Starting
  <1>15. CASE UNCHANGED vars BY <1>1, <1>15 DEF vars
  <1> QED BY <1>3, <1>4, <1>5, <1>6, <1>7, <1>9, <1>10, <1>11, <1>12, <1>13, <1>14, <1>15
        DEF Next, Publishing, Closing

LEMMA Replaced == ASSUME IInv, Starting, UsedIsReplaced, [Next]_vars PROVE UsedIsReplaced'
  <1> USE DEF IInv
  <1>0. /\ rt \in Runtime /\ rt.token \in 0 .. MaxTokens /\ used \in [Tokens -> Nat]
        /\ queue \in Seq(Askers)
    BY DEF TypeOK, Runtime
  <1>1. ASSUME rt'.token = rt.token, used' = used, queue' = <<>> => queue = <<>>,
               Alive' /\ ~Closed' => Alive /\ ~Closed
        PROVE  UsedIsReplaced'
    BY <1>1 DEF UsedIsReplaced
  <1>2. ASSUME NEW x \in Askers, queue' = Append(queue, x) PROVE UsedIsReplaced'
    <2>1. Append(queue, x) # <<>> BY <1>0, AppendProperties
    <2> QED BY <1>2, <2>1 DEF UsedIsReplaced
  <1>3. CASE BeginPublication /\ Closed BY <1>3 DEF BeginPublication, UsedIsReplaced, Closed
  <1>4. CASE BeginPublication /\ ~Closed
    <2>1. LastToken + 1 \in Tokens /\ ~(LastToken + 1 <= LastToken)
      BY <1>4, LastTokenType, Bounds DEF BeginPublication, Tokens
    <2>2. rt'.token = LastToken + 1 /\ used' = used BY <1>0, <1>4 DEF BeginPublication, Runtime
    <2>3. ~(used'[rt'.token] > 0) BY <2>1, <2>2 DEF Published
    <2> QED BY <2>3 DEF UsedIsReplaced
  <1>5. CASE RenamePublication BY <1>1, <1>5 DEF RenamePublication, Alive, Closed
  <1>6. CASE EndPublication \/ PublicationFails
    <2>1. used' = used /\ queue' = queue /\ writing # None BY <1>6 DEF EndPublication, PublicationFails
    <2>2. CASE writing.asker = "start"
      <3>1. rt.phase = "starting" BY <2>1, <2>2 DEF Starting
      <3>2. Alive /\ ~Closed BY <3>1 DEF Alive, Closed
      <3>3. rt'.token = rt.token BY <1>0, <1>6 DEF EndPublication, PublicationFails, Runtime
      <3> QED BY <1>1, <2>1, <3>2, <3>3
    <2>3. CASE writing.asker # "start"
      <3>1. rt' = rt BY <1>6, <2>3 DEF EndPublication, PublicationFails
      <3> QED BY <1>1, <2>1, <3>1 DEF Alive, Closed
    <2> QED BY <2>2, <2>3
  <1>7. CASE Refresh BY <1>2, <1>7, Bounds DEF Refresh
  <1>8. CASE Expire BY <1>1, <1>8 DEF Expire, Alive, Closed
  <1>9. ASSUME NEW p \in Peers,
               ReadRendezvous(p) \/ Accept(p) \/ Validated(p) \/ Dropped(p) \/ Receive(p)
        PROVE  UsedIsReplaced'
    <2>1. queue' = queue /\ used' = used /\ rt'.phase = rt.phase /\ rt'.token = rt.token
      BY <1>0, <1>9 DEF ReadRendezvous, Accept, Validated, Dropped, Receive, Runtime
    <2> QED BY <1>1, <2>1 DEF Alive, Closed
  <1>10. ASSUME NEW p \in Peers, Authenticate(p) PROVE UsedIsReplaced'
    <2>1. CASE UNCHANGED <<rt, used, queue>> BY <1>1, <2>1 DEF Alive, Closed
    <2>2. CASE queue' = Append(queue, p) BY <1>2, <2>2, Bounds
    <2> QED BY <1>10, <2>1, <2>2 DEF Authenticate
  <1>11. ASSUME NEW p \in Peers, SocketClosed(p) PROVE UsedIsReplaced'
    <2>1. rt'.phase = rt.phase /\ rt'.token = rt.token /\ used' = used
      BY <1>0, <1>11 DEF SocketClosed, Runtime
    <2>2. DOMAIN queue' = DOMAIN queue BY <1>11 DEF SocketClosed
    <2>3. queue' = <<>> => queue = <<>> BY <1>0, <2>2, EmptySeq, LenProperties
    <2> QED BY <1>1, <2>1, <2>3 DEF Alive, Closed
  <1>12. CASE Start
    <2>1. rt'.token = 0 BY <1>12 DEF Start, NewRuntime
    <2> QED BY <2>1 DEF UsedIsReplaced
  <1>13. CASE DisableIntegration \/ Close \/ StopServer \/ ServerStopped \/ RemoveRendezvous
    <2>1. queue' = queue /\ used' = used /\ rt'.token = rt.token /\ Alive
      BY <1>0, <1>13 DEF DisableIntegration, Close, StopServer, ServerStopped, RemoveRendezvous, Alive, Runtime
    <2>2. Alive' /\ ~Closed' => ~Closed
      BY <1>0, <1>13 DEF DisableIntegration, Close, StopServer, ServerStopped, RemoveRendezvous, Alive, Closed, Runtime
    <2> QED BY <1>1, <2>1, <2>2
  <1>14. CASE Crash
    <2>1. ~Alive'
      <3> DEFINE new == NewRuntime(rt.epoch)
      <3>1. new \in Runtime BY <1>0, NewRuntimeType DEF Runtime
      <3>2. rt' = [new EXCEPT !.phase = "down", !.token = rt.token] BY <1>14 DEF Crash
      <3> HIDE DEF new
      <3> QED BY <3>1, <3>2 DEF Runtime, Alive
    <2> QED BY <2>1 DEF UsedIsReplaced
  <1>15. CASE UNCHANGED vars BY <1>1, <1>15 DEF vars, Alive, Closed
  <1> QED BY <1>3, <1>4, <1>5, <1>6, <1>7, <1>8, <1>9, <1>10, <1>11, <1>12, <1>13, <1>14, <1>15
        DEF Next, Publishing, Closing

\* A token that let a peer in is due to be replaced however that peer, its publication or an earlier
\* one ends, and only a crashed runtime, or one that could not unlink it, leaves its file behind
\* (publishTail, close).
THEOREM PublicationsKept == Spec => []PublicationsHold
  <1>1. Init => Starting /\ UsedIsReplaced
    <2> SUFFICES ASSUME Init PROVE Starting /\ UsedIsReplaced
      OBVIOUS
    <2>1. queue = <<>> /\ writing = None /\ IInv BY InitTyped DEF Init, IInv
    <2>2. \A t \in Tokens : used[t] = 0 BY DEF Init
    <2>3. rt.phase = "down" BY Bounds, NewRuntimeType, PhaseType DEF Init, Phases
    <2> QED BY <2>1, <2>2, <2>3 DEF Starting, UsedIsReplaced, Alive
  <1>2. IInv /\ Starting /\ UsedIsReplaced /\ [Next]_vars => (Starting /\ UsedIsReplaced)'
    BY StartingKept, Replaced
  <1>3. IInv /\ UsedIsReplaced => PublicationsHold
    BY DEF IInv, Published, PublicationsHold, NothingLeftBehind, Alive
  <1>4. Spec => [](Starting /\ UsedIsReplaced) BY <1>1, <1>2, Always, PTL DEF Spec
  <1> QED BY <1>3, <1>4, Always, PTL
=============================================================================
