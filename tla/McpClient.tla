------------------------------ MODULE McpClient ------------------------------
(***************************************************************************)
(* The MCP clients over server-sent events and over a subprocess. A call   *)
(* lists a channel for its answer, sends its request and waits; one reader *)
(* takes answers off the stream and hands each to the channel listed for   *)
(* it. The stream may end, and the client be closed, at any moment.        *)
(***************************************************************************)
EXTENDS Naturals, FiniteSets

CONSTANTS
  McpCalls,    \* the calls of sendRequest, the handshake's included
  MaxAnswers   \* how often a server answers the same request

ASSUME McpAssumption == MaxAnswers \in Nat

VARIABLES
  transport,   \* "sse" or "stdio"
  mcpCall,     \* where each call stands
  answerChan,  \* the channel of each call: none, open, answered (its one place is full), closed
  listed,      \* the calls in the pending map
  asked,       \* the requests the server has
  answers,     \* how often each was answered
  inHand,      \* the call whose answer the reader has taken and not yet handed over
  reading,     \* the reader's loop runs
  gone,        \* the stream has ended, or the subprocess has exited
  streamEnded, \* streamEnded, or processDone is closed
  reaped,      \* waitProcess has cleared the map
  isClosed, closing

mcpStreamVars == <<transport, reading, gone, streamEnded, reaped, isClosed, closing>>
mcpCallVars == <<mcpCall, answerChan, listed, asked, answers, inHand>>
mcpVars == <<mcpStreamVars, mcpCallVars>>

McpInit ==
  /\ transport \in {"sse", "stdio"}
  /\ mcpCall = [c \in McpCalls |-> "new"] /\ answerChan = [c \in McpCalls |-> "none"]
  /\ listed = {} /\ asked = {} /\ answers = [c \in McpCalls |-> 0] /\ inHand = {}
  /\ reading = TRUE /\ gone = FALSE /\ streamEnded = FALSE /\ reaped = FALSE
  /\ isClosed = FALSE /\ closing = "no"

\* Every entry is deleted and its channel closed, under the lock.
CloseListed ==
  /\ listed' = {}
  /\ answerChan' = [c \in McpCalls |-> IF c \in listed THEN "closed" ELSE answerChan[c]]

\* The checks made under the lock that lists the call.
CallRefused_ClosedOnly == isClosed
CallRefused == isClosed \/ (transport = "sse" /\ streamEnded)

Register(c) ==
  /\ mcpCall[c] = "new"
  /\ IF CallRefused
     THEN mcpCall' = [mcpCall EXCEPT ![c] = "failed"] /\ UNCHANGED <<listed, answerChan>>
     ELSE /\ mcpCall' = [mcpCall EXCEPT ![c] = "sending"]
          /\ listed' = listed \cup {c} /\ answerChan' = [answerChan EXCEPT ![c] = "open"]
  /\ UNCHANGED <<mcpStreamVars, asked, answers, inHand>>

\* The server may have the request, and answer it, before the POST or the write returns. A
\* subprocess that has exited reads nothing; an SSE server still takes POSTs.
ReachesServer(c) ==
  /\ mcpCall[c] = "sending" /\ c \notin asked
  /\ transport = "stdio" => ~gone
  /\ asked' = asked \cup {c}
  /\ UNCHANGED <<mcpStreamVars, mcpCall, answerChan, listed, answers, inHand>>

Ends(c, how) == mcpCall' = [mcpCall EXCEPT ![c] = how]

Sent(c) == /\ mcpCall[c] = "sending" /\ c \in asked
           /\ Ends(c, "waiting")
           /\ UNCHANGED <<mcpStreamVars, answerChan, listed, asked, answers, inHand>>

\* The POST fails, is refused, or runs out of time; the write fails, or the client was closed.
SendFails(c) == /\ mcpCall[c] = "sending"
                /\ Ends(c, "failed") /\ listed' = listed \ {c}
                /\ UNCHANGED <<mcpStreamVars, answerChan, asked, answers, inHand>>

\* The select: the answer, the closed channel or the end of the subprocess, ...
Returns(c) ==
  /\ mcpCall[c] = "waiting"
  /\ \/ answerChan[c] = "answered" /\ Ends(c, "answered")
     \/ answerChan[c] = "closed" /\ Ends(c, "failed")
     \/ transport = "stdio" /\ streamEnded /\ Ends(c, "failed")
  /\ UNCHANGED <<mcpStreamVars, answerChan, listed, asked, answers, inHand>>

\* ... or the end of its context.
TimesOut(c) == /\ mcpCall[c] = "waiting"
               /\ Ends(c, "failed") /\ listed' = listed \ {c}
               /\ UNCHANGED <<mcpStreamVars, answerChan, asked, answers, inHand>>

\* What is listed once the reader has found the call of an answer: the entry goes under the lock.
Found_Kept(c) == listed
Found(c) == listed \ {c}

\* An answer of a call no longer listed is dropped.
ReadsAnswer(c) ==
  /\ reading /\ inHand = {} /\ c \in asked /\ answers[c] < MaxAnswers
  /\ answers' = [answers EXCEPT ![c] = @ + 1]
  /\ IF c \in listed THEN listed' = Found(c) /\ inHand' = {c} ELSE UNCHANGED <<listed, inHand>>
  /\ UNCHANGED <<mcpStreamVars, mcpCall, answerChan, asked>>

\* After the unlock: sent on a channel of one place.
HandsOver(c) ==
  /\ c \in inHand /\ inHand' = {} /\ answerChan' = [answerChan EXCEPT ![c] = "answered"]
  /\ UNCHANGED <<mcpStreamVars, mcpCall, listed, asked, answers>>

\* The server ends the stream, or the subprocess exits.
StreamGoes == /\ ~gone /\ gone' = TRUE
              /\ UNCHANGED <<transport, reading, streamEnded, reaped, isClosed, closing, mcpCallVars>>

\* The SSE reader marks the stream ended and fails every listed call in one hold of the lock.
ReaderEnds ==
  /\ reading /\ inHand = {} /\ gone /\ reading' = FALSE
  /\ IF transport = "sse" THEN streamEnded' = TRUE /\ CloseListed
     ELSE UNCHANGED <<streamEnded, listed, answerChan>>
  /\ UNCHANGED <<transport, gone, reaped, isClosed, closing, mcpCall, asked, answers, inHand>>

\* waitProcess: processDone is closed, then the listed calls are failed.
ProcessDone == /\ transport = "stdio" /\ gone /\ ~streamEnded /\ streamEnded' = TRUE
               /\ UNCHANGED <<transport, reading, gone, reaped, isClosed, closing, mcpCallVars>>

ProcessReaped == /\ transport = "stdio" /\ streamEnded /\ ~reaped /\ reaped' = TRUE /\ CloseListed
                 /\ UNCHANGED <<transport, reading, gone, streamEnded, isClosed, closing,
                                mcpCall, asked, answers, inHand>>

CloseMarks == /\ ~isClosed /\ isClosed' = TRUE /\ closing' = "cancels"
              /\ UNCHANGED <<transport, reading, gone, streamEnded, reaped, mcpCallVars>>

CloseCancels == /\ closing = "cancels" /\ gone' = TRUE
                /\ closing' = IF transport = "sse" THEN "clears" ELSE "done"
                /\ UNCHANGED <<transport, reading, streamEnded, reaped, isClosed, mcpCallVars>>

CloseClears == /\ closing = "clears" /\ closing' = "done" /\ CloseListed
               /\ UNCHANGED <<transport, reading, gone, streamEnded, reaped, isClosed, mcpCall,
                              asked, answers, inHand>>

CallStep(c) == Register(c) \/ ReachesServer(c) \/ Sent(c) \/ SendFails(c) \/ Returns(c) \/ TimesOut(c)
               \/ ReadsAnswer(c) \/ HandsOver(c)
McpNext == (\E c \in McpCalls : CallStep(c)) \/ StreamGoes \/ ReaderEnds \/ ProcessDone
           \/ ProcessReaped \/ CloseMarks \/ CloseCancels \/ CloseClears

McpSpec == McpInit /\ [][McpNext]_mcpVars

-----------------------------------------------------------------------------

\* The reader's send, made after it released the lock, finds the channel open and its place free,
\* whatever closes the client or ends the stream meanwhile and however often the server answers:
\* it neither panics on a closed channel nor blocks and starves every other call.
ReaderCanSend == \A c \in inHand : answerChan[c] = "open"

\* Once the reader of an event stream has ended, or an exited subprocess has been reaped, no call
\* waits on a channel nobody is left to fill or close: every such call returns, also without any
\* deadline of its own, and also if it registered just as the stream ended.
NoOrphanedCall ==
  (transport = "sse" /\ ~reading) \/ reaped =>
    \A c \in McpCalls \ inHand : mcpCall[c] = "waiting" => answerChan[c] # "open"

=============================================================================
