------------------------------ MODULE Messages ------------------------------
(***************************************************************************)
(* Messages to Discord: QueueDiscordMessage and queueCMSItem of disc, and  *)
(* the sending loop of support/mainLoops_cms.go.  Any goroutine queues;    *)
(* its three channel operations interleave with those of the others and    *)
(* of the loop.  The loop collects a batch, sends embeds and messages of   *)
(* other channels one by one, then the chat and the report channel in      *)
(* chunks, one token for each; a send that may be tried again puts its     *)
(* text back into the queue.  A batch is kept in the three lists in which  *)
(* it is sent.                                                             *)
(*                                                                         *)
(* A definition whose comment says "Fault" is a wrong variant of the one   *)
(* that follows it and is used by no specification.                        *)
(***************************************************************************)
EXTENDS Integers, FiniteSets, Sequences, SequencesExt, FiniteSetsExt

CONSTANTS
  Senders,         \* goroutines that queue messages
  Targets,         \* where they write: embeds, text for some other channel, chat, report
  MaxMessages,     \* bound on messages; they are numbered in the order they are queued
  ChanSize,        \* capacity of CMSChan, 1024 in the code
  MaxTokens,       \* 5 in the code
  MaxErrors        \* bound on failed sends

ASSUME MessageConstants ==
  /\ Targets \subseteq {"embed", "other", "chat", "report"}
  /\ MaxMessages \in Nat /\ MaxErrors \in Nat
  /\ ChanSize \in Nat \ {0} /\ MaxTokens \in Nat \ {0}

Lists == {"direct", "chat", "report"}   \* what is sent at once, factmsg, moder

VARIABLES
  online,      \* disc.DS # nil
  issued,      \* messages so far: [to, by]
  writing,     \* per sender: [at, msg], msg = 0 when it is not in queueCMSItem
  channel,     \* CMSChan
  batch,       \* per list: what the loop still has to send
  loop,        \* of the loop: "idle", "collect", "send", "rest", "done"
  tokens,
  errors,
  delivered,   \* what Discord shows, in order
  lost         \* ghost: messages given up

messageVars == <<online, issued, writing, channel, batch, loop, tokens, errors,
                 delivered, lost>>

Resting == [at |-> "none", msg |-> 0]

-----------------------------------------------------------------------------
(* queueCMSItem *)

Full(c) == Len(c) >= ChanSize

QueueDiscordMessage(p, to) ==
  /\ writing[p].msg = 0 /\ Len(issued) < MaxMessages
  /\ issued' = Append(issued, [to |-> to, by |-> p])
  /\ writing' = [writing EXCEPT ![p] = [at |-> "first", msg |-> Len(issued')]]
  /\ UNCHANGED <<online, channel, batch, loop, tokens, errors, delivered, lost>>

\* The first select
TryQueue(p) ==
  /\ writing[p].at = "first"
  /\ IF Full(channel)
     THEN /\ writing' = [writing EXCEPT ![p].at = "drop"]
          /\ UNCHANGED channel
     ELSE /\ channel' = Append(channel, writing[p].msg)
          /\ writing' = [writing EXCEPT ![p] = Resting]
  /\ UNCHANGED <<online, issued, batch, loop, tokens, errors, delivered, lost>>

\* The oldest message makes room, if the loop has not made it meanwhile.
DropOldest(p) ==
  /\ writing[p].at = "drop"
  /\ IF channel = <<>> THEN UNCHANGED <<channel, lost>>
     ELSE /\ channel' = Tail(channel)
          /\ lost' = lost \cup (Range(channel) \ Range(channel'))
  /\ writing' = [writing EXCEPT ![p].at = "again"]
  /\ UNCHANGED <<online, issued, batch, loop, tokens, errors, delivered>>

\* Another sender may have taken the room.
TryAgain(p) ==
  /\ writing[p].at = "again"
  /\ IF Full(channel)
     THEN /\ lost' = lost \cup {writing[p].msg}
          /\ UNCHANGED channel
     ELSE /\ channel' = Append(channel, writing[p].msg)
          /\ UNCHANGED lost
  /\ writing' = [writing EXCEPT ![p] = Resting]
  /\ UNCHANGED <<online, issued, batch, loop, tokens, errors, delivered>>

-----------------------------------------------------------------------------
(* The loop of startCMSBuffer *)

To(x) == issued[x].to
ListOf(x) == IF To(x) \in {"embed", "other"} THEN "direct" ELSE To(x)

\* The first message starts a batch, and what arrives until the timer fires joins it.
Collect ==
  /\ online /\ channel # <<>>
  /\ loop \in {"idle", "collect"}
  /\ batch' = [batch EXCEPT ![ListOf(Head(channel))] = Append(@, Head(channel))]
  /\ channel' = Tail(channel)
  /\ loop' = "collect"
  /\ UNCHANGED <<online, issued, writing, tokens, errors, delivered, lost>>

CollectEnds ==
  /\ loop = "collect" /\ loop' = "send"
  /\ UNCHANGED <<online, issued, writing, channel, batch, tokens, errors, delivered, lost>>

\* The lists are sent one after the other.
Earlier == [direct |-> {}, chat |-> {"direct"}, report |-> {"direct", "chat"}]

\* How much of a list may be sent next: one embed or message, or lines of one channel.
Chunks(b) ==
  {k \in 1 .. Len(batch[b]) :
     (b = "direct" => k = 1) /\ \A c \in Earlier[b] : batch[c] = <<>>}

Chunk(b, k) == SubSeq(batch[b], 1, k)

SendStep(b, k) ==
  /\ loop = "send" /\ tokens > 0
  /\ tokens' = tokens - 1
  /\ batch' = [batch EXCEPT ![b] = SubSeq(@, k + 1, Len(@))]
  /\ loop' = IF \A c \in Lists : batch'[c] = <<>> THEN "rest" ELSE "send"
  /\ UNCHANGED <<online, issued, writing>>

SmartWriteDiscord ==
  \E b \in Lists : \E k \in Chunks(b) :
    /\ SendStep(b, k) /\ online
    /\ delivered' = delivered \o Chunk(b, k)
    /\ UNCHANGED <<channel, errors, lost>>

\* Fault: text that could not be sent is forgotten.
Requeued_Not(c, s) == c

\* Queued again by the loop itself, the oldest ones making room.
Requeued(c, s) ==
  LET all == c \o s IN
  IF Len(all) <= ChanSize THEN all ELSE SubSeq(all, Len(all) - ChanSize + 1, Len(all))

\* isRetryableDiscordSendError, or no session any more: the text is queued again,
\* although a send that timed out may have reached Discord.
SendRetried ==
  \E b \in Lists : \E k \in Chunks(b) :
    /\ SendStep(b, k) /\ errors < MaxErrors
    /\ errors' = errors + 1
    /\ To(Chunk(b, k)[1]) # "embed"
    /\ channel' = Requeued(channel, Chunk(b, k))
    /\ lost' = IF Len(channel) + k > ChanSize
               THEN lost \cup (Range(channel \o Chunk(b, k)) \ Range(channel')) ELSE lost
    /\ delivered' \in {delivered, IF online THEN delivered \o Chunk(b, k) ELSE delivered}

\* Another error, or an embed, which is not queued again
SendFails ==
  \E b \in Lists : \E k \in Chunks(b) :
    /\ SendStep(b, k) /\ errors < MaxErrors
    /\ errors' = errors + 1
    /\ online \/ To(Chunk(b, k)[1]) = "embed"
    /\ lost' = lost \cup Range(Chunk(b, k))
    /\ UNCHANGED <<channel, delivered>>

\* CMSRestTime
LoopRests ==
  /\ loop = "rest" /\ loop' = "idle"
  /\ UNCHANGED <<online, issued, writing, channel, batch, tokens, errors, delivered, lost>>

Refill ==
  /\ tokens < MaxTokens /\ tokens' = MaxTokens
  /\ UNCHANGED <<online, issued, writing, channel, batch, loop, errors, delivered, lost>>

Session ==
  /\ online' = ~online
  /\ UNCHANGED <<issued, writing, channel, batch, loop, tokens, errors, delivered, lost>>

InBatch == UNION {Range(batch[b]) : b \in Lists}

\* The context is cancelled: what the loop holds is given up.
LoopEnds ==
  /\ loop # "done" /\ loop' = "done"
  /\ lost' = lost \cup InBatch
  /\ batch' = [b \in Lists |-> <<>>]
  /\ UNCHANGED <<online, issued, writing, channel, tokens, errors, delivered>>

MessagesInit ==
  /\ online = FALSE /\ issued = <<>> /\ channel = <<>>
  /\ batch = [b \in Lists |-> <<>>]
  /\ writing = [p \in Senders |-> Resting]
  /\ loop = "idle" /\ tokens = MaxTokens /\ errors = 0
  /\ delivered = <<>> /\ lost = {}

MessagesNext ==
  \/ \E p \in Senders :
       \/ \E to \in Targets : QueueDiscordMessage(p, to)
       \/ TryQueue(p) \/ DropOldest(p) \/ TryAgain(p)
  \/ Collect \/ CollectEnds \/ SmartWriteDiscord \/ SendRetried \/ SendFails
  \/ LoopRests \/ Refill \/ Session \/ LoopEnds

MessagesSpec == MessagesInit /\ [][MessagesNext]_messageVars

-----------------------------------------------------------------------------
(* Properties *)

Underway == {writing[p].msg : p \in Senders} \ {0}

\* Queue, batch and tokens have their types and keep their limits.
MessagesTypeOK ==
  /\ Len(channel) <= ChanSize /\ tokens \in 0 .. MaxTokens
  /\ Range(channel) \cup InBatch \cup Range(delivered) \cup lost \subseteq DOMAIN issued
  /\ loop = "send" => InBatch # {}

\* No message disappears: it is being queued, in the queue, in the batch, shown, or was
\* given up because the queue overflowed, Discord refused it, or the loop ended.
NothingVanishes ==
  DOMAIN issued =
    Underway \cup Range(channel) \cup InBatch \cup Range(delivered) \cup lost

\* As long as no send failed, nothing is shown twice, and what one goroutine wrote to
\* one channel is shown in the order it was written.
ShownInOrder ==
  errors = 0 =>
    \A i, j \in DOMAIN delivered :
      i < j /\ To(delivered[i]) = To(delivered[j])
            /\ issued[delivered[i]].by = issued[delivered[j]].by
      => delivered[i] < delivered[j]

\* Messages reach Discord or are known to be lost, and in order.
MessagesKept == NothingVanishes /\ ShownInOrder
=============================================================================
