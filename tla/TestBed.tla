------------------------------- MODULE TestBed -------------------------------
(***************************************************************************)
(* A measurement on the test bed: multy_flow_server.py starts servers and  *)
(* waits for them, multy_flow_client.py starts clients, waits for a key,   *)
(* signals each client and waits for them in turn, reading the output of a *)
(* client after it has ended.  Each client sends its segments to its own   *)
(* server (rc_server.cpp), which polls completions and posts receives, and *)
(* ends at the first error it sees.                                        *)
(* What a client does between the signal and its end is in RSwiftClient.   *)
(***************************************************************************)
EXTENDS Integers

CONSTANTS
  N,        \* process num: pairs of a client and a server
  Segments, \* segments of a client
  Iters,    \* iters of a server
  Depth,    \* rx_depth
  MaxPoll,  \* max_cqe_num_one_poll
  PipeCap,  \* lines that a pipe holds
  MaxLines  \* bound: lines a client writes

ASSUME TestBedAssumption ==
  /\ N \in Nat \ {0} /\ Segments \in Nat \ {0} /\ Iters \in Nat
  /\ Depth \in Nat \ {0} /\ MaxPoll \in Nat \ {0}
  /\ PipeCap \in Nat /\ MaxLines \in Nat

VARIABLES
  starter,  \* multy_flow_client.py: <<phase, process>>
  waiter,   \* multy_flow_server.py: <<phase, process>>
  client,   \* state of each client
  begun,    \* begin_to_send
  sent,     \* segments that have arrived
  lines,    \* lines a client has still to write
  pipe,     \* lines in the pipe of a client
  server,   \* state of each server
  posted,   \* receives posted and not used
  done,     \* completions not polled
  iters     \* iters

clientVars == <<client, begun, lines, pipe>>
serverVars == <<server, posted, done, iters>>
vars == <<starter, waiter, clientVars, sent, serverVars>>

Pairs == 1 .. N

Init ==
  /\ starter = <<"launch", 1>> /\ waiter = <<"launch", 1>>
  /\ client = [i \in Pairs |-> "absent"] /\ server = [i \in Pairs |-> "absent"]
  /\ begun = [i \in Pairs |-> FALSE] /\ sent = [i \in Pairs |-> 0]
  /\ lines \in [Pairs -> 0 .. MaxLines] /\ pipe = [i \in Pairs |-> 0]
  /\ posted = [i \in Pairs |-> 0] /\ done = [i \in Pairs |-> 0]
  /\ iters = [i \in Pairs |-> Iters]

\* Mutant of Step: one process too many.
StepBeyond(phase, i, next) == IF i <= N THEN <<phase, i + 1>> ELSE <<next, 1>>

\* A loop over all processes, and the phase after it.
Step(phase, i, next) == IF i < N THEN <<phase, i + 1>> ELSE <<next, 1>>

Gone == {"ended", "killed", "failed"}

\* Servers that have ended, by their count or by an error.
Closed == {"ended", "failed"}

---------------------------------------------------------------------------
\* multy_flow_client.py.
LaunchClient(i) ==
  /\ starter = <<"launch", i>> /\ starter' = Step("launch", i, "key")
  /\ client' = [client EXCEPT ![i] = "loading"]
  /\ UNCHANGED <<waiter, begun, lines, pipe, sent, serverVars>>

KeyPressed ==
  /\ starter = <<"key", 1>> /\ starter' = <<"kill", 1>>
  /\ UNCHANGED <<waiter, clientVars, sent, serverVars>>

\* kill -64: before the handler is installed the signal ends the process.
Kill(i) ==
  /\ starter = <<"kill", i>> /\ starter' = Step("kill", i, "wait")
  /\ client' = IF client[i] = "loading" THEN [client EXCEPT ![i] = "killed"]
               ELSE client
  /\ begun' = [begun EXCEPT ![i] = @ \/ client[i] \notin Gone \cup {"loading"}]
  /\ UNCHANGED <<waiter, lines, pipe, sent, serverVars>>

\* Mutant of Wait: only a regular end of the process is noticed.
WaitEnded(i) ==
  /\ starter = <<"wait", i>> /\ client[i] = "ended"
  /\ starter' = Step("wait", i, "over")
  /\ pipe' = [pipe EXCEPT ![i] = 0]
  /\ UNCHANGED <<waiter, client, begun, lines, sent, serverVars>>

\* The output is read when the process has ended, not before.
Wait(i) ==
  /\ starter = <<"wait", i>> /\ client[i] \in Gone
  /\ starter' = Step("wait", i, "over")
  /\ pipe' = [pipe EXCEPT ![i] = 0]
  /\ UNCHANGED <<waiter, client, begun, lines, sent, serverVars>>

\* multy_flow_server.py.
LaunchServer(i) ==
  /\ waiter = <<"launch", i>> /\ waiter' = Step("launch", i, "wait")
  /\ server' = [server EXCEPT ![i] = "loading"]
  /\ UNCHANGED <<starter, clientVars, sent, posted, done, iters>>

WaitServer(i) ==
  /\ waiter = <<"wait", i>> /\ server[i] \in Closed
  /\ waiter' = Step("wait", i, "over")
  /\ UNCHANGED <<starter, clientVars, sent, serverVars>>

---------------------------------------------------------------------------
InstallHandler(i) ==
  /\ client[i] = "loading" /\ client' = [client EXCEPT ![i] = "connecting"]
  /\ UNCHANGED <<starter, waiter, begun, lines, pipe, sent, serverVars>>

\* The server fills its receive queue before it listens.
Listen(i) ==
  /\ server[i] = "loading" /\ server' = [server EXCEPT ![i] = "listening"]
  /\ posted' = [posted EXCEPT ![i] = Depth]
  /\ UNCHANGED <<starter, waiter, clientVars, sent, done, iters>>

\* The exchange of addresses; the connection is refused when nobody listens.
Connect(i) ==
  /\ client[i] = "connecting"
  /\ IF server[i] = "listening"
     THEN /\ client' = [client EXCEPT ![i] = "ready"]
          /\ server' = [server EXCEPT ![i] = "polling"]
     ELSE /\ client' = [client EXCEPT ![i] = "failed"]
          /\ UNCHANGED server
  /\ UNCHANGED <<starter, waiter, begun, lines, pipe, sent, posted, done, iters>>

\* A segment arrives and is acknowledged; without a receive it is tried again.
\* A server that has ended has closed its queue pair: then the client, whose
\* completion thread ends with an error, spins for ever (rc_client.cpp:160).
Arrive(i) ==
  /\ client[i] = "ready" /\ begun[i] /\ sent[i] < Segments
  /\ server[i] = "polling" /\ posted[i] > 0
  /\ sent' = [sent EXCEPT ![i] = @ + 1]
  /\ posted' = [posted EXCEPT ![i] = @ - 1]
  /\ done' = [done EXCEPT ![i] = @ + 1]
  /\ UNCHANGED <<starter, waiter, clientVars, server, iters>>

\* A client writes a line, and stops while its pipe is full.
Write(i) ==
  /\ client[i] = "ready" /\ begun[i] /\ lines[i] > 0 /\ pipe[i] < PipeCap
  /\ lines' = [lines EXCEPT ![i] = @ - 1]
  /\ pipe' = [pipe EXCEPT ![i] = @ + 1]
  /\ UNCHANGED <<starter, waiter, client, begun, sent, serverVars>>

ClientEnds(i) ==
  /\ client[i] = "ready" /\ sent[i] = Segments /\ lines[i] = 0
  /\ client' = [client EXCEPT ![i] = "ended"]
  /\ UNCHANGED <<starter, waiter, begun, lines, pipe, sent, serverVars>>

Smaller(a, b) == IF a < b THEN a ELSE b

\* Mutant of Posts: one receive for a poll.
PostsOne(n, ne) == 1

\* cc_recv_cqe posts ne receives for each of n completions of a poll of ne.
Posts(n, ne) == n * ne

\* Posting stops when the receive queue is full.
Refill(i, n, ne) ==
  /\ done' = [done EXCEPT ![i] = @ - ne]
  /\ posted' = [posted EXCEPT ![i] = Smaller(@ + Posts(n, ne), Depth - done'[i])]

\* Mutant of Counted: a poll counts as one segment.
CountedOnce(n, ne) == n - 1

Counted(n, ne) == n - ne

\* The thread ends when the count is exactly 0.
Poll(i, ne) ==
  /\ server[i] = "polling" /\ ne <= done[i]
  /\ Refill(i, ne, ne)
  /\ iters' = [iters EXCEPT ![i] = Counted(@, ne)]
  /\ server' = IF iters'[i] = 0 THEN [server EXCEPT ![i] = "ended"] ELSE server
  /\ UNCHANGED <<starter, waiter, clientVars, sent>>

\* ibv_exp_poll_cq fails: the thread returns and the server ends.
PollFails(i) ==
  /\ server[i] = "polling" /\ server' = [server EXCEPT ![i] = "failed"]
  /\ UNCHANGED <<starter, waiter, clientVars, sent, posted, done, iters>>

\* After n completions of a poll one has failed: the thread returns before it
\* takes any of them off its count.
CompletionFails(i, n, ne) ==
  /\ server[i] = "polling" /\ n < ne /\ ne <= done[i]
  /\ Refill(i, n, ne)
  /\ server' = [server EXCEPT ![i] = "failed"]
  /\ UNCHANGED <<starter, waiter, clientVars, sent, iters>>

Next ==
  \/ KeyPressed
  \/ \E i \in Pairs :
       \/ LaunchClient(i) \/ Kill(i) \/ Wait(i) \/ LaunchServer(i) \/ WaitServer(i)
       \/ InstallHandler(i) \/ Listen(i) \/ Connect(i)
       \/ Arrive(i) \/ Write(i) \/ ClientEnds(i)
       \/ \E ne \in 1 .. MaxPoll :
            Poll(i, ne) \/ \E n \in 0 .. ne - 1 : CompletionFails(i, n, ne)
       \/ PollFails(i)

Fairness ==
  /\ WF_vars(KeyPressed)
  /\ \A i \in Pairs :
       /\ WF_vars(LaunchClient(i)) /\ WF_vars(Kill(i)) /\ WF_vars(Wait(i))
       /\ WF_vars(LaunchServer(i)) /\ WF_vars(WaitServer(i))
       /\ WF_vars(InstallHandler(i)) /\ WF_vars(Listen(i)) /\ WF_vars(Connect(i))
       /\ WF_vars(Arrive(i)) /\ WF_vars(Write(i)) /\ WF_vars(ClientEnds(i))
       /\ WF_vars(\E ne \in 1 .. MaxPoll : Poll(i, ne))

Spec == Init /\ [][Next]_vars /\ Fairness

---------------------------------------------------------------------------
TypeOK ==
  /\ starter \in {"launch", "key", "kill", "wait", "over"} \X Pairs
  /\ waiter \in {"launch", "wait", "over"} \X Pairs
  /\ client \in [Pairs -> {"absent", "loading", "connecting", "ready"} \cup Gone]
  /\ server \in [Pairs -> {"absent", "loading", "listening", "polling", "ended",
                            "failed"}]
  /\ begun \in [Pairs -> BOOLEAN] /\ sent \in [Pairs -> 0 .. Segments]
  /\ lines \in [Pairs -> 0 .. MaxLines] /\ pipe \in [Pairs -> 0 .. PipeCap]
  /\ posted \in [Pairs -> 0 .. Depth] /\ done \in [Pairs -> 0 .. Depth]
  /\ iters \in [Pairs -> Int]

\* The receive queue of a server is full but for what is completed.
ReceivesPosted ==
  \A i \in Pairs : server[i] \in {"listening", "polling", "ended"} =>
    posted[i] + done[i] = Depth

\* A server counts down the segments it has polled, unless it fails.
ItersCount ==
  \A i \in Pairs : server[i] # "failed" => iters[i] = Iters - (sent[i] - done[i])

\* Every variable has its type; the receive queue of a server is full but for
\* what is completed and not polled, although it posts the square of what it
\* polled, so a segment waits for a receive only while the server has
\* completions to poll; and the number a server must step on exactly to end is
\* what it has not polled of its segments.  A server that fails ends with its
\* last poll uncounted (rc_server.cpp:23-49).
ServerCounts == TypeOK /\ ReceivesPosted /\ ItersCount

\* The server script ends when the servers are started for as many segments as
\* the clients send, no client comes before its server listens or is signalled
\* before its handler is installed, and no output is longer than a pipe; also
\* when some servers fail.
ServerScriptEnds ==
  /\ Segments = Iters
  /\ \A i \in Pairs : lines[i] <= PipeCap
  /\ [](\A i \in Pairs : client[i] \notin {"killed", "failed"})
  => <>(waiter = <<"over", 1>>)

\* The client script ends when no output is longer than a pipe and no server
\* ends before it has all segments, by its count or by an error: the client of
\* such a server would spin for ever.
ClientScriptEnds ==
  /\ Segments <= Iters
  /\ \A i \in Pairs : lines[i] <= PipeCap
  /\ [](\A i \in Pairs : server[i] # "failed")
  => <>(starter = <<"over", 1>>)

\* The script of the clients ends, though it waits for them one by one and
\* reads none of their output before, also when some were signalled too early
\* or refused; that of the servers ends when none was, also when servers fail
\* (multy_flow_client.py:36-42, multy_flow_server.py:14-17).
ScriptsEnd == ServerScriptEnds /\ ClientScriptEnds
==============================================================================
