--------------------------- MODULE ControlSocket ----------------------------
(***************************************************************************)
(* The control socket of `cargopit play` (crates/cargopit/src/control.rs)  *)
(* and its callers (tui/src/control.rs, or socat as the README has it).     *)
(*                                                                         *)
(* Sessions are processes: any of them may start, end or be killed while    *)
(* another one starts, and start() is a probe, a check, a removal and a     *)
(* bind, each a system call of its own.  A session serves one connection    *)
(* per poll of its loop and blocks in it until the caller has sent a line   *)
(* or hung up; a caller waits for its reply only so long.                   *)
(***************************************************************************)
EXTENDS Naturals, Sequences

CONSTANTS Sessions,     \* play processes, each of them started once
          Callers,      \* one request each
          Nobody

ASSUME ControlSocketAssumption ==
    /\ Nobody \notin Sessions \cup Callers
    /\ Sessions \cap Callers = {}

VARIABLES
    path,       \* the session whose socket the path names, live or stale
    stage,      \* how far each session is with start(), or that it runs or ended
    control,    \* what start() returned
    signalled,  \* SIGINT or SIGTERM has been sent
    queue,      \* connections to a session's listener, not yet accepted
    serving,    \* the connection accepted and not yet answered
    acting,     \* the caller whose effect the poll has yet to carry out
    caller,     \* the state of each request
    asks,       \* its command
    to,         \* the session it is connected to
    effects,    \* history: how often its effect was carried out
    raced       \* history: two sessions were starting at the same time

sessionVars == <<stage, control, signalled, queue, serving, acting>>
callerVars == <<caller, asks, to>>
vars == <<path, sessionVars, callerVars, effects, raced>>

\* "stay" is a status request, a reload or an unknown command: the session replies
\* and goes on.
Commands == {"stay", "stop"}

\* A connection is a caller, or a session that was probing for a listener and
\* closed it at once.
Peers == Callers \cup Sessions

Starting == {"probed", "removing", "binding"}

TypeOK ==
    /\ path \in Sessions \cup {Nobody}
    /\ stage \in [Sessions -> {"off", "running", "ended"} \cup Starting]
    /\ control \in [Sessions -> {"unknown", "ready", "owned", "failed"}]
    /\ signalled \in [Sessions -> BOOLEAN]
    /\ queue \in [Sessions -> Seq(Peers)]
    /\ serving \in [Sessions -> Peers \cup {Nobody}]
    /\ acting \in [Sessions -> Callers \cup {Nobody}]
    /\ caller \in [Callers -> {"idle", "connected", "asked", "replied", "told",
                               "refused", "gone"}]
    /\ asks \in [Callers -> Commands]
    /\ to \in [Callers -> Sessions \cup {Nobody}]
    /\ effects \in [Callers -> Nat]
    /\ raced \in BOOLEAN

\* A socket may be left at the path by a session that is long gone: that is the
\* state after one of Sessions has run and ended.
Init ==
    /\ path = Nobody
    /\ stage = [s \in Sessions |-> "off"]
    /\ control = [s \in Sessions |-> "unknown"]
    /\ signalled = [s \in Sessions |-> FALSE]
    /\ queue = [s \in Sessions |-> <<>>]
    /\ serving = [s \in Sessions |-> Nobody]
    /\ acting = [s \in Sessions |-> Nobody]
    /\ caller = [c \in Callers |-> "idle"]
    /\ asks \in [Callers -> Commands]
    /\ to = [c \in Callers |-> Nobody]
    /\ effects = [c \in Callers |-> 0]
    /\ raced = FALSE

Listening(s) == stage[s] = "running" /\ control[s] = "ready"

\* connect(2) on the path succeeds.
Reachable == path # Nobody /\ Listening(path)

-----------------------------------------------------------------------------
(* start(): has_listener, then bind_listener *)

\* The session goes on without a socket, or with one.
Started(s, outcome) ==
    /\ stage' = [stage EXCEPT ![s] = "running"]
    /\ control' = [control EXCEPT ![s] = outcome]

GoesOn(s, next) ==
    /\ stage' = [stage EXCEPT ![s] = next]
    /\ UNCHANGED control

\* Fault for UnracedStarts: the path is taken over without asking who has it.
FaultNoProbe(s) ==
    /\ stage[s] = "off"
    /\ raced' = (raced \/ \E other \in Sessions : stage[other] \in Starting)
    /\ GoesOn(s, "probed")
    /\ UNCHANGED <<path, signalled, queue, serving, acting, callerVars, effects>>

\* has_listener: the probe's own connection stays behind in the owner's queue.
Probe(s) ==
    /\ stage[s] = "off"
    /\ raced' = (raced \/ \E other \in Sessions : stage[other] \in Starting)
    /\ IF Reachable
       THEN /\ queue' = [queue EXCEPT ![path] = Append(@, s)]
            /\ Started(s, "owned")
       ELSE GoesOn(s, "probed") /\ UNCHANGED queue
    /\ UNCHANGED <<path, signalled, serving, acting, callerVars, effects>>

\* Path::exists
CheckPath(s) ==
    /\ stage[s] = "probed"
    /\ GoesOn(s, IF path = Nobody THEN "binding" ELSE "removing")
    /\ UNCHANGED <<path, signalled, queue, serving, acting, callerVars, effects, raced>>

\* remove_file fails when another session was faster.
RemovePath(s) ==
    /\ stage[s] = "removing"
    /\ path' = Nobody
    /\ IF path = Nobody THEN Started(s, "failed") ELSE GoesOn(s, "binding")
    /\ UNCHANGED <<signalled, queue, serving, acting, callerVars, effects, raced>>

\* bind(2) fails when the path exists again.
Bind(s) ==
    /\ stage[s] = "binding"
    /\ IF path = Nobody
       THEN path' = s /\ Started(s, "ready")
       ELSE UNCHANGED path /\ Started(s, "failed")
    /\ UNCHANGED <<signalled, queue, serving, acting, callerVars, effects, raced>>

-----------------------------------------------------------------------------
(* try_accept and serve_stream, once in every poll *)

Accept(s) ==
    /\ Listening(s)
    /\ serving[s] = Nobody /\ acting[s] = Nobody
    /\ queue[s] # <<>>
    /\ serving' = [serving EXCEPT ![s] = Head(queue[s])]
    /\ queue' = [queue EXCEPT ![s] = Tail(@)]
    /\ UNCHANGED <<path, stage, control, signalled, acting, callerVars, effects, raced>>

\* The peer has closed: the read ends, the write of the reply fails, and with it
\* serve_stream, so that the command has no effect.
HungUp(peer) == peer \in Callers => caller[peer] = "gone"

Drop(s) ==
    /\ serving[s] # Nobody
    /\ HungUp(serving[s])
    /\ serving' = [serving EXCEPT ![s] = Nobody]
    /\ UNCHANGED <<path, stage, control, signalled, queue, acting, callerVars, effects,
                   raced>>

\* Fault for ToldIsDone: the reply is sent, the effect is not passed on.
FaultReplyOnly(s) ==
    /\ serving[s] \in Callers
    /\ caller[serving[s]] = "asked"
    /\ caller' = [caller EXCEPT ![serving[s]] = "replied"]
    /\ serving' = [serving EXCEPT ![s] = Nobody]
    /\ UNCHANGED <<path, stage, control, signalled, queue, acting, asks, to, effects, raced>>

\* The line is there: the reply is written, then the effect returned.
Answer(s) ==
    /\ serving[s] \in Callers
    /\ caller[serving[s]] = "asked"
    /\ caller' = [caller EXCEPT ![serving[s]] = "replied"]
    /\ acting' = [acting EXCEPT ![s] = serving[s]]
    /\ serving' = [serving EXCEPT ![s] = Nobody]
    /\ UNCHANGED <<path, stage, control, signalled, queue, asks, to, effects, raced>>

\* Fault for NothingHangs: connections outlive the session.
FaultLinger(s) ==
    /\ stage' = [stage EXCEPT ![s] = "ended"]
    /\ queue' = [queue EXCEPT ![s] = <<>>]
    /\ serving' = [serving EXCEPT ![s] = Nobody]
    /\ acting' = [acting EXCEPT ![s] = Nobody]
    /\ UNCHANGED <<path, control, signalled, caller, asks, to, raced>>

\* The process is gone with its listener and every connection; the file stays.
Ended(s) ==
    /\ stage' = [stage EXCEPT ![s] = "ended"]
    /\ queue' = [queue EXCEPT ![s] = <<>>]
    /\ serving' = [serving EXCEPT ![s] = Nobody]
    /\ acting' = [acting EXCEPT ![s] = Nobody]
    /\ caller' = [c \in Callers |->
                    IF to[c] = s /\ caller[c] \in {"connected", "asked"}
                    THEN "refused" ELSE caller[c]]
    /\ UNCHANGED <<path, control, signalled, asks, to, raced>>

\* apply_control carries out what was asked: a stop ends the process.
Act(s) ==
    LET c == acting[s]
    IN  /\ c # Nobody
        /\ effects' = [effects EXCEPT ![c] = @ + 1]
        /\ \/ /\ asks[c] = "stop"
              /\ Ended(s)
           \/ /\ asks[c] # "stop"
              /\ acting' = [acting EXCEPT ![s] = Nobody]
              /\ UNCHANGED <<path, stage, control, signalled, queue, serving, callerVars,
                             raced>>

\* apply_quit comes before apply_control, so a signal is noticed between two
\* connections only; signal() restarts the read that one is blocked in.
Quit(s) ==
    /\ stage[s] = "running"
    /\ signalled[s]
    /\ serving[s] = Nobody /\ acting[s] = Nobody
    /\ Ended(s)
    /\ UNCHANGED effects

SessionStep(s) ==
    \/ CheckPath(s) \/ RemovePath(s) \/ Bind(s)
    \/ Accept(s) \/ Drop(s) \/ Answer(s) \/ Act(s) \/ Quit(s)

-----------------------------------------------------------------------------
(* The processes around it *)

\* The handlers are installed before start() is called.
Signal(s) ==
    /\ stage[s] \in Starting \cup {"running"}
    /\ signalled' = [signalled EXCEPT ![s] = TRUE]
    /\ UNCHANGED <<path, stage, control, queue, serving, acting, callerVars, effects, raced>>

\* SIGKILL or a crash, at any point.
Kill(s) ==
    /\ stage[s] \notin {"off", "ended"}
    /\ Ended(s)
    /\ UNCHANGED effects

\* request_at: connect and send the line.
Connect(c) ==
    /\ caller[c] = "idle"
    /\ Reachable
    /\ caller' = [caller EXCEPT ![c] = "connected"]
    /\ to' = [to EXCEPT ![c] = path]
    /\ queue' = [queue EXCEPT ![path] = Append(@, c)]
    /\ UNCHANGED <<path, stage, control, signalled, serving, acting, asks, effects, raced>>

Ask(c) ==
    /\ caller[c] = "connected"
    /\ caller' = [caller EXCEPT ![c] = "asked"]
    /\ UNCHANGED <<path, sessionVars, asks, to, effects, raced>>

\* read_line returns the reply.
ReadReply(c) ==
    /\ caller[c] = "replied"
    /\ caller' = [caller EXCEPT ![c] = "told"]
    /\ UNCHANGED <<path, sessionVars, asks, to, effects, raced>>

\* The read timed out, or the caller's process ended: the connection is closed,
\* whether or not a reply is under way.
GiveUp(c) ==
    /\ caller[c] \in {"connected", "asked", "replied"}
    /\ caller' = [caller EXCEPT ![c] = "gone"]
    /\ UNCHANGED <<path, sessionVars, asks, to, effects, raced>>


Next ==
    \/ \E s \in Sessions : Probe(s) \/ SessionStep(s) \/ Signal(s) \/ Kill(s)
    \/ \E c \in Callers : Connect(c) \/ Ask(c) \/ ReadReply(c) \/ GiveUp(c)

Spec == Init /\ [][Next]_vars

\* request_at sends its line as soon as it has connected; a caller that dies first
\* closes the connection.
Speak(c) == caller[c] = "connected" /\ (Ask(c) \/ GiveUp(c))

\* A process that runs goes on running.  That a caller speaks is an assumption
\* about the callers, which the session does not enforce; that it stops waiting
\* for the reply is not assumed.
FairSpec ==
    /\ Spec
    /\ \A s \in Sessions : WF_vars(SessionStep(s))
    /\ \A c \in Callers : WF_vars(Speak(c)) /\ WF_vars(ReadReply(c))

-----------------------------------------------------------------------------
(* Properties *)

\* As long as no two sessions were starting at once, a session that listens is
\* the one the path leads to, whatever stale sockets were there before, and no
\* start fails.
UnracedStarts ==
    ~raced => \A s \in Sessions : /\ Listening(s) => path = s
                                  /\ control[s] # "failed"

\* A caller that was told "ok" got what it asked for, once, unless the process
\* was killed between its reply and the effect; nobody else's command is obeyed,
\* and none twice.
ToldIsDone ==
    \A c \in Callers :
      /\ caller[c] \in {"replied", "told"} =>
           effects[c] = 1 \/ acting[to[c]] = c \/ stage[to[c]] = "ended"
      /\ caller[c] \in {"idle", "connected", "asked", "refused"} => effects[c] = 0
      /\ effects[c] <= 1

\* Nothing is left hanging.  SIGINT and SIGTERM end a session, no matter who is
\* connected to it, though the loop cannot see them while it waits for a caller's
\* line; and every call ends, also when its session ends or loses the path.
NothingHangs ==
    /\ \A s \in Sessions : signalled[s] ~> stage[s] = "ended"
    /\ \A c \in Callers :
         caller[c] = "asked" ~> caller[c] \in {"told", "refused", "gone"}
=============================================================================
