---------------------------- MODULE StreamRelay ----------------------------
(***************************************************************************)
(* One streamed chat completion, from the provider to the client.          *)
(*                                                                         *)
(* Three goroutines pass the chunks on: the adapter's producer, which      *)
(* reads the provider's response into a buffered channel; the wrapper,     *)
(* which remembers the last usage report, hands each chunk over an         *)
(* unbuffered channel and settles the bill when the producer's channel is  *)
(* closed; and the writer, which flushes each chunk to the client, stops   *)
(* at the first flush that fails, and writes [DONE] at the end.            *)
(*                                                                         *)
(* The provider's answer is a script of chunks, some with a usage report.  *)
(* The response may break off anywhere, and the client may go away at any  *)
(* moment; the gateway learns of it only from a flush that fails, and not  *)
(* from the first one for certain, since the server buffers.               *)
(***************************************************************************)
EXTENDS Naturals, Sequences

CONSTANTS
  MaxChunks,   \* the longest answer
  Buffer,      \* capacity of the producer's channel: 32, 10 or 2
  NumRoutes    \* providers that serve the model, in routing order

ASSUME StreamConstants ==
  MaxChunks \in Nat /\ Buffer \in Nat \ {0} /\ NumRoutes \in Nat \ {0}

VARIABLES
  script,      \* has[i]: the i-th chunk of the answer carries usage
  route,       \* the index of the provider being tried
  handler,     \* handleStreamChat: trying, relaying or failed
  read,        \* how many chunks of the answer the producer has read
  producer,    \* the producer goroutine: reading or ended
  sent,        \* history: the chunks put into the producer's channel
  upstream,    \* the producer's channel
  wrapper,     \* the wrapper goroutine: receiving, sending, settling or ended
  hand,        \* the chunk the wrapper is handing over, if any
  usage,       \* the chunk of the last usage report the wrapper saw, 0 if none
  billed,      \* the usage report the bill is based on
  writer,      \* the writer goroutine: receiving, writing, broken or ended
  page,        \* the chunk being written, if any
  client,      \* the chunks that reached the client
  connected    \* is the client there?

answerVars == <<script, route, handler>>
producerVars == <<read, producer, sent>>
wrapperVars == <<wrapper, hand, usage, billed>>
writerVars == <<writer, page, client>>
relayVars == <<answerVars, producerVars, upstream, wrapperVars, writerVars, connected>>

Chunks == 1..MaxChunks
Unbilled == MaxChunks + 1    \* no bill yet

RelayInit ==
  /\ \E n \in 0..MaxChunks : script \in [1..n -> BOOLEAN]
  /\ route = 1 /\ handler = "trying"
  /\ read = 0 /\ producer = "reading" /\ sent = <<>>
  /\ upstream = <<>>
  /\ wrapper = "receiving" /\ hand = <<>> /\ usage = 0 /\ billed = Unbilled
  /\ writer = "receiving" /\ page = <<>> /\ client = <<>>
  /\ connected = TRUE

-----------------------------------------------------------------------------
(* handleStreamChat: the fallback loop covers the initiation only. *)

InitiationFails ==
  /\ handler = "trying"
  /\ IF route < NumRoutes
       THEN route' = route + 1 /\ UNCHANGED handler
       ELSE handler' = "failed" /\ UNCHANGED route
  /\ UNCHANGED <<script, producerVars, upstream, wrapperVars, writerVars, connected>>

\* A provider answers 200: from here on the three goroutines run.
Initiate ==
  /\ handler = "trying"
  /\ handler' = "relaying"
  /\ UNCHANGED <<script, route, producerVars, upstream, wrapperVars, writerVars, connected>>

-----------------------------------------------------------------------------
(* The producer. *)

\* The next chunk is read and sent; the channel must have room.
Produce ==
  /\ handler = "relaying" /\ producer = "reading"
  /\ read < Len(script) /\ Len(upstream) < Buffer
  /\ read' = read + 1
  /\ upstream' = Append(upstream, read + 1)
  /\ sent' = Append(sent, read + 1)
  /\ UNCHANGED <<answerVars, producer, wrapperVars, writerVars, connected>>

\* A line of the response does not parse as a chunk, and is skipped.
SkipChunk ==
  /\ handler = "relaying" /\ producer = "reading"
  /\ read < Len(script)
  /\ read' = read + 1
  /\ UNCHANGED <<answerVars, producer, sent, upstream, wrapperVars, writerVars, connected>>

\* The response ends, or breaks off before its end (a transport error, or the
\* HTTP client's 60 seconds are over): the channel is closed either way.
CloseUpstream ==
  /\ handler = "relaying" /\ producer = "reading"
  /\ producer' = "ended"
  /\ UNCHANGED <<answerVars, read, sent, upstream, wrapperVars, writerVars, connected>>

-----------------------------------------------------------------------------
(* The wrapper. *)

\* Mutated form: every chunk replaces the remembered usage.
TakeForgetting ==
  /\ handler = "relaying" /\ wrapper = "receiving" /\ upstream # <<>>
  /\ hand' = <<Head(upstream)>>
  /\ upstream' = Tail(upstream)
  /\ usage' = IF script[Head(upstream)] THEN Head(upstream) ELSE 0
  /\ wrapper' = "sending"
  /\ UNCHANGED <<answerVars, producerVars, billed, writerVars, connected>>

\* A chunk is received, and its usage report remembered.
Take ==
  /\ handler = "relaying" /\ wrapper = "receiving" /\ upstream # <<>>
  /\ hand' = <<Head(upstream)>>
  /\ upstream' = Tail(upstream)
  /\ usage' = IF script[Head(upstream)] THEN Head(upstream) ELSE usage
  /\ wrapper' = "sending"
  /\ UNCHANGED <<answerVars, producerVars, billed, writerVars, connected>>

\* Mutated form: a send that nobody receives is dropped, as with a default case.
HandOverOrDrop ==
  /\ wrapper = "sending"
  /\ IF writer = "receiving"
       THEN page' = hand /\ writer' = "writing"
       ELSE UNCHANGED <<page, writer>>
  /\ hand' = <<>> /\ wrapper' = "receiving"
  /\ UNCHANGED <<answerVars, producerVars, upstream, usage, billed, client, connected>>

\* The unbuffered send and receive: wrapper and writer move together.
HandOver ==
  /\ wrapper = "sending" /\ writer = "receiving"
  /\ page' = hand /\ writer' = "writing"
  /\ hand' = <<>> /\ wrapper' = "receiving"
  /\ UNCHANGED <<answerVars, producerVars, upstream, usage, billed, client, connected>>

\* The producer's channel is closed and drained.
StreamComplete ==
  /\ handler = "relaying" /\ wrapper = "receiving"
  /\ producer = "ended" /\ upstream = <<>>
  /\ wrapper' = "settling"
  /\ UNCHANGED <<answerVars, producerVars, upstream, hand, usage, billed, writerVars, connected>>

\* Mutated form: the channel to the writer is closed before the settlement.
SettleAfterClose ==
  /\ \/ wrapper = "settling" /\ wrapper' = "ended" /\ UNCHANGED billed
     \/ wrapper = "ended" /\ billed = Unbilled /\ billed' = usage /\ UNCHANGED wrapper
  /\ UNCHANGED <<answerVars, producerVars, upstream, hand, usage, writerVars, connected>>

\* Cost, usage row, deduction and request log from the remembered usage, no
\* tokens if there is none; then the deferred close of the writer's channel.
Settle ==
  /\ wrapper = "settling"
  /\ billed' = usage
  /\ wrapper' = "ended"
  /\ UNCHANGED <<answerVars, producerVars, upstream, hand, usage, writerVars, connected>>

-----------------------------------------------------------------------------
(* The writer (RelayStream's body stream writer). *)

\* The flush of a chunk succeeds.  When the client is gone the server may
\* still take the bytes, which then reach nobody.
FlushChunk ==
  /\ writer = "writing"
  /\ client' = IF connected THEN client \o page ELSE client
  /\ page' = <<>> /\ writer' = "receiving"
  /\ UNCHANGED <<answerVars, producerVars, upstream, wrapperVars, connected>>

\* The flush fails: the loop ends with the channel still open.
FlushFails ==
  /\ writer = "writing" /\ ~connected
  /\ page' = <<>> /\ writer' = "broken"
  /\ UNCHANGED <<answerVars, producerVars, upstream, wrapperVars, client, connected>>

\* Mutated form: the writer ends when there is nothing to write.
FinishEarly ==
  /\ handler = "relaying"
  /\ \/ writer = "receiving" /\ producer = "ended"
     \/ writer = "broken"
  /\ writer' = "ended"
  /\ UNCHANGED <<answerVars, producerVars, upstream, wrapperVars, page, client, connected>>

\* [DONE] is written and the result channel, which has room for it, filled:
\* after the loop ran out of chunks, or after it broke off.
Finish ==
  /\ \/ writer = "receiving" /\ wrapper = "ended"
     \/ writer = "broken"
  /\ writer' = "ended"
  /\ UNCHANGED <<answerVars, producerVars, upstream, wrapperVars, page, client, connected>>

ClientLeaves ==
  /\ handler = "relaying" /\ connected /\ writer # "ended"
  /\ connected' = FALSE
  /\ UNCHANGED <<answerVars, producerVars, upstream, wrapperVars, writerVars>>

\* Nothing more can happen: the relay is over, or what is left of it waits.
Quiescent ==
  /\ \/ handler = "failed"
     \/ writer = "ended" /\ (wrapper = "ended" \/ wrapper = "sending")
  /\ UNCHANGED relayVars

Producer == Produce \/ SkipChunk \/ CloseUpstream
Wrapper == Take \/ HandOver \/ StreamComplete \/ Settle
Writer == FlushChunk \/ FlushFails \/ Finish

RelayNext ==
  \/ InitiationFails \/ Initiate
  \/ Producer \/ Wrapper \/ Writer
  \/ ClientLeaves
  \/ Quiescent

RelaySpec == RelayInit /\ [][RelayNext]_relayVars

\* Goroutines are scheduled, statements return, and the response body ends:
\* the provider's answer is finite and the HTTP client's timeout covers it.
FairRelaySpec ==
  RelaySpec /\ WF_relayVars(InitiationFails \/ Initiate)
       /\ WF_relayVars(Producer) /\ WF_relayVars(Wrapper) /\ WF_relayVars(Writer)

-----------------------------------------------------------------------------
(* Properties. *)

OneOrNone == {<<>>} \cup {<<i>> : i \in Chunks}

RelayTypeOK ==
  /\ script \in Seq(BOOLEAN) /\ Len(script) <= MaxChunks
  /\ route \in 1..NumRoutes
  /\ handler \in {"trying", "relaying", "failed"}
  /\ read \in 0..Len(script)
  /\ producer \in {"reading", "ended"}
  /\ sent \in Seq(Chunks)
  /\ upstream \in Seq(Chunks) /\ Len(upstream) <= Buffer
  /\ wrapper \in {"receiving", "sending", "settling", "ended"}
  /\ hand \in OneOrNone /\ (hand = <<>> <=> wrapper # "sending")
  /\ usage \in 0..MaxChunks
  /\ billed \in 0..Unbilled
  /\ writer \in {"receiving", "writing", "broken", "ended"}
  /\ page \in OneOrNone /\ (page = <<>> <=> writer # "writing")
  /\ client \in Seq(Chunks)
  /\ connected \in BOOLEAN

\* While the client is there, the chunks the producer sent are, in order, those
\* the client has, the one being written, the one being handed over and those
\* waiting in the channel: no stage of the relay loses, repeats or reorders one.
ChunksFlowInOrder == connected => sent = client \o page \o hand \o upstream

LastUsage(chunks) ==
  LET reports == {i \in DOMAIN chunks : script[chunks[i]]}
  IN  IF reports = {} THEN 0
      ELSE chunks[CHOOSE i \in reports : \A j \in reports : j <= i]

\* The bill rests on the last usage report that reached the wrapper, and on no
\* report only if none was sent, whether or not the client stayed to see it.
BilledByLastUsage == billed # Unbilled => billed = LastUsage(sent)

\* A client that is there when [DONE] is written has the whole answer, but for
\* lines that did not parse and what a broken response never delivered, and
\* finds the call settled: its next request meets the reduced balance.
DoneMeansDone == connected /\ writer = "ended" => client = sent /\ billed # Unbilled

Over == writer = "ended" /\ wrapper = "ended" /\ producer = "ended"

\* As long as the client stays, the relay ends, with every goroutine gone and
\* the call settled: no stage waits for another for ever.
RelayEnds == handler = "relaying" ~> (Over /\ billed # Unbilled) \/ ~connected

\* What the comment on handleStreamChat says: it captures final usage from the
\* last chunk and records billing.  Every stream it starts is settled.
EveryStreamSettled == handler = "relaying" ~> billed # Unbilled

=============================================================================
