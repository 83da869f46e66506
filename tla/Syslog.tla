-------------------------------- MODULE Syslog --------------------------------
(***************************************************************************)
(* haproxy/syslog.go and the vendored syslog server: haproxy logs to a     *)
(* datagram socket, one goroutine receives and hands messages to a bounded *)
(* queue, another prints them.  Messages are numbered; what receiver       *)
(* parses of one is left out.  The server is never shut down, it ends with *)
(* the router; the systemd unit then starts a new container.               *)
(***************************************************************************)
EXTENDS Naturals, Sequences, SequencesExt

CONSTANTS
  QLen,        \* length of the handler's queue (1000 in the code)
  SocketLen,   \* datagrams the socket holds
  MaxMessages, \* bound: messages that haproxy logs
  MaxExits     \* bound: exits of the router

VARIABLES
  server,   \* "stopped", "starting" or "running": the router's process
  socket,   \* does the socket's file exist?
  sent,     \* messages logged so far
  wire,     \* the datagrams in the socket
  queue,    \* BaseHandler.queue
  hand,     \* the message mainLoop is printing, 0 if none
  printed,  \* what was printed
  exits     \* exits so far

syslogVars == <<server, socket, sent, wire, queue, hand, printed, exits>>
process == <<server, socket, exits>>

SyslogInit ==
  /\ server = "starting"
  /\ socket = FALSE
  /\ sent = 0
  /\ wire = <<>>
  /\ queue = <<>>
  /\ hand = 0
  /\ printed = <<>>
  /\ exits = 0

-----------------------------------------------------------------------------
(* The life of the process.                                                *)

\* StartSyslogServer.  A file left behind makes ListenUnixgram fail, which
\* main treats as fatal.
Listen ==
  /\ server = "starting"
  /\ server' = IF socket THEN "stopped" ELSE "running"
  /\ socket' = TRUE
  /\ UNCHANGED <<sent, wire, queue, hand, printed, exits>>

\* receiver's read error is fatal, as are other errors of the router; nothing
\* removes the socket's file.
Exit ==
  /\ server = "running"
  /\ exits < MaxExits
  /\ exits' = exits + 1
  /\ server' = "stopped"
  /\ wire' = <<>>
  /\ queue' = <<>>
  /\ hand' = 0
  /\ UNCHANGED <<socket, sent, printed>>

\* Mutant of Restart: the same container is started again.
RestartContainer ==
  /\ server = "stopped"
  /\ server' = "starting"
  /\ UNCHANGED <<socket, sent, wire, queue, hand, printed, exits>>

\* Restart=on-failure, with a new container and thus new files.
Restart ==
  /\ server = "stopped"
  /\ server' = "starting"
  /\ socket' = FALSE
  /\ UNCHANGED <<sent, wire, queue, hand, printed, exits>>

-----------------------------------------------------------------------------
(* Messages.                                                               *)

\* haproxy does not wait when the socket is full.
Log ==
  /\ server = "running"
  /\ sent < MaxMessages
  /\ sent' = sent + 1
  /\ wire' = IF Len(wire) < SocketLen THEN Append(wire, sent') ELSE wire
  /\ UNCHANGED <<process, queue, hand, printed>>

\* Mutant of Handle: waits for room in the queue.
HandleWaiting(m) ==
  /\ Len(queue) < QLen
  /\ queue' = Append(queue, m)

\* A select with a default: queued, or dropped when the queue is full.
Handle(m) == queue' = IF Len(queue) < QLen THEN Append(queue, m) ELSE queue

\* Mutant of receiver: a goroutine for every message.
receiverConcurrently ==
  /\ \E i \in DOMAIN wire : /\ wire' = RemoveAt(wire, i)
                            /\ Handle(wire[i])
  /\ UNCHANGED <<process, sent, hand, printed>>

\* receiver reads a datagram, parses it and passes it to the handler.
receiver ==
  /\ wire # <<>>
  /\ wire' = Tail(wire)
  /\ Handle(Head(wire))
  /\ UNCHANGED <<process, sent, hand, printed>>

\* Mutant of Get: takes the newest and forgets the others.
GetNewest ==
  /\ hand = 0
  /\ queue # <<>>
  /\ hand' = Last(queue)
  /\ queue' = <<>>
  /\ UNCHANGED <<process, sent, wire, printed>>

Get ==
  /\ hand = 0
  /\ queue # <<>>
  /\ hand' = Head(queue)
  /\ queue' = Tail(queue)
  /\ UNCHANGED <<process, sent, wire, printed>>

Printf ==
  /\ hand # 0
  /\ printed' = Append(printed, hand)
  /\ hand' = 0
  /\ UNCHANGED <<process, sent, wire, queue>>

SyslogNext == Listen \/ Exit \/ Restart \/ Log \/ receiver \/ Get \/ Printf

\* The goroutines run and the unit restarts the router.  Printf has none: it
\* waits for whoever reads the standard output.
SyslogFairness ==
  /\ WF_syslogVars(Listen) /\ WF_syslogVars(Restart)
  /\ WF_syslogVars(receiver) /\ WF_syslogVars(Get)

SyslogSpec == SyslogInit /\ [][SyslogNext]_syslogVars /\ SyslogFairness

-----------------------------------------------------------------------------
(* Properties.                                                             *)

Message == 1 .. MaxMessages

(* Messages are printed in the order haproxy sent them and at most once,   *)
(* whatever is dropped and however often the router is restarted.          *)
PrintedInOrder ==
  LET line == printed \o (IF hand = 0 THEN <<>> ELSE <<hand>>) \o queue \o wire
  IN \A i, j \in DOMAIN line : i < j => line[i] < line[j]

(* Handle "immediately returns even if queue is full": messages are taken  *)
(* from the socket even when printing is stuck.                            *)
ReceiverNeverWaits == \A n \in Message : Contains(wire, n) ~> ~Contains(wire, n)

(* What made it into the queue is printed, as long as printing goes on and *)
(* the router runs.                                                        *)
QueuedIsPrinted ==
  []<>(hand = 0) =>
    \A n \in Message : Contains(queue, n) ~> Contains(printed, n) \/ server # "running"

(* A router that ended listens again: the unit removes the old container,  *)
(* and with it the socket's file, before it starts a new one.              *)
ListensAgain == server = "stopped" ~> server = "running"
=============================================================================
