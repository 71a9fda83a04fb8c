---------------------------- MODULE StateStream ----------------------------
(***************************************************************************)
(* The state stream of networked play: a server peer (netplay/peer.go)     *)
(* sends every committed world through its Sender and its sequence/ack     *)
(* layer; the client (netplay/client.go, Run) absorbs the datagrams,       *)
(* applies the packets, answers with inputs or standalone acks that carry  *)
(* its ack record, and asks for a resync on the reliable channel.          *)
(*                                                                         *)
(* Datagrams are lost (never received) and reordered; the reliable channel *)
(* only delays.  Each action is one critical section or one turn of the    *)
(* client's receive loop.                                                  *)
(***************************************************************************)
EXTENDS SeqAck, StateSync

CONSTANTS
  World,         \* World[t]: the world the session commits at tick t
  MaxTick,       \* bound: last tick, far below the wraparound
  Modes,         \* baseline modes to consider
  Clients        \* roles and ack policies to consider, as pairs

ASSUME StreamAssumption ==
  /\ MaxTick \in Nat
  /\ MaxTick < HalfSeq
  /\ World \in [ 1 .. MaxTick -> Worlds ]
  /\ Modes \subseteq BaselineModes
  /\ "bounded" \in Modes => SpeculationDepth \in 1 .. HistoryDepth - 1
  /\ Clients \subseteq { "player", "spectator" } \X { "PiggybackOnly", "Dedicated" }

VARIABLES
  mode,      \* the declared baseline mode
  client,    \* the client's role and ack policy
  tick,      \* ticks committed and sent
  sender,    \* the peer's Sender
  slayer,    \* the peer's sequence/ack layer
  clayer,    \* the client's sequence/ack layer
  receiver,  \* the client's Receiver
  down,      \* state datagrams in flight
  up,        \* client datagrams in flight
  resyncs,   \* resync requests in flight on the reliable channel
  applied,   \* history: the ticks the client reconstructed
  arrived    \* history: the ticks whose datagram reached the client

vars == << mode, client, tick, sender, slayer, clayer, receiver, down, up,
           resyncs, applied, arrived >>

Init ==
  /\ mode \in Modes
  /\ client \in Clients
  /\ tick = 0
  /\ sender = NewSender
  /\ slayer = NewLayer
  /\ clayer = NewLayer
  /\ receiver = NewReceiver
  /\ down = {}
  /\ up = {}
  /\ resyncs = 0
  /\ applied = {}
  /\ arrived = {}

-----------------------------------------------------------------------------

\* Peer.sendState for the next committed world: confirm what the layer has
\* confirmed, then encode, then number and send the datagram.
Confirming == Confirm(sender, slayer.confirmed)

SendState ==
  /\ tick < MaxTick
  /\ tick' = tick + 1
  /\ sender' = AfterSending(Confirming, mode, tick', World[tick'])
  /\ down' = down \cup
       { Frame(slayer, FALSE, Packet(Confirming, mode, tick', World[tick'])) }
  /\ \E cut \in 1 .. tick' :
       /\ RetiresTo(slayer, tick', cut)
       /\ slayer' = AfterSend(slayer, tick', cut)
  /\ UNCHANGED << mode, client, clayer, receiver, up, resyncs, applied, arrived >>

\* MaybeFlushAck at the end of a turn.
FlushDue(l) == l.ackDirty /\ client[2] = "Dedicated"

FlushTurn(l) ==
  IF FlushDue(l)
    THEN /\ clayer' = AfterFlush(l)
         /\ up' = up \cup { Frame(l, TRUE, NoTick) }
    ELSE /\ clayer' = l
         /\ UNCHANGED up

\* Absorb handed nothing up.
ClientOvertaken(f) ==
  /\ ~Delivers(clayer, f)
  /\ FlushTurn(Absorbed(clayer, f))
  /\ UNCHANGED << receiver, resyncs, applied >>

\* Apply reports a baseline it does not hold: ask for a snapshot and go on
\* with the next message, without flushing.
ClientResync(f) ==
  /\ Delivers(clayer, f)
  /\ ResyncNeeded(receiver, f.payload)
  /\ clayer' = Absorbed(clayer, f)
  /\ resyncs' = resyncs + 1
  /\ UNCHANGED << receiver, up, applied >>

\* The agent observes the newest world and may decide on an input; then the
\* ack policy has its say.
ClientApply(f) ==
  LET l == Absorbed(clayer, f)
  IN  /\ Delivers(clayer, f)
      /\ ~ResyncNeeded(receiver, f.payload)
      /\ receiver' = Applied(receiver, f.payload)
      /\ applied' = applied \cup { NewestTick(receiver') }
      /\ \/ FlushTurn(l)
         \/ /\ client[1] = "player"
            /\ \E cut \in 1 .. NewestTick(receiver') :
                 /\ RetiresTo(l, NewestTick(receiver'), cut)
                 /\ clayer' = AfterSend(l, NewestTick(receiver'), cut)
            /\ up' = up \cup { Frame(l, FALSE, NewestTick(receiver')) }
      /\ UNCHANGED resyncs

ClientTurn ==
  \E f \in down :
    /\ down' = down \ {f}
    /\ arrived' = arrived \cup {f.payload.tick}
    /\ ClientOvertaken(f) \/ ClientResync(f) \/ ClientApply(f)
    /\ UNCHANGED << mode, client, tick, sender, slayer >>

\* Peer.Run: a datagram from the client; what it carries upwards is the
\* session's business.
ServerAbsorb ==
  \E f \in up :
    /\ up' = up \ {f}
    /\ slayer' = Absorbed(slayer, f)
    /\ UNCHANGED << mode, client, tick, sender, clayer, receiver, down, resyncs,
                    applied, arrived >>

\* Peer.Run: the resync control message.
ServerResync ==
  /\ resyncs > 0
  /\ resyncs' = resyncs - 1
  /\ sender' = ResyncRequested(sender)
  /\ UNCHANGED << mode, client, tick, slayer, clayer, receiver, down, up,
                  applied, arrived >>

Next == SendState \/ ClientTurn \/ ServerAbsorb \/ ServerResync

Spec == Init /\ [][Next]_vars

-----------------------------------------------------------------------------

Packets == { f.payload : f \in down }

TypeOK ==
  /\ mode \in Modes /\ client \in Clients
  /\ tick \in 0 .. MaxTick
  /\ sender.confirmed \in { NoTick } \cup 1 .. tick
  /\ sender.lastSent = tick /\ sender.sends \in 0 .. tick
  /\ Len(sender.history) <= HistoryDepth /\ Len(receiver) <= HistoryDepth
  /\ slayer.nextSeq = tick
  /\ clayer.nextSeq \in SeqNo
  /\ resyncs \in Nat
  /\ \A p \in Packets : p.tick \in 1 .. tick
  /\ applied \subseteq arrived /\ arrived \subseteq 1 .. tick

\* Receiver.State and every version behind it: whatever was lost, reordered or
\* refused, each version the client retains is the world the session committed
\* at that tick, field by field.
Reconstruction ==
  \A i \in DOMAIN receiver : receiver[i].state = World[receiver[i].tick]

\* Receiver.history ("the sender may legitimately diff against any version the
\* receiver reported holding, not only the newest one"): a delta against a
\* version the client once reconstructed is decodable when it arrives, however
\* late, or is stale by then; retention on the two ends never disagrees.
RetentionSuffices ==
  \A p \in Packets :
    p.kind = "delta" /\ p.baseline \in applied => ~ResyncNeeded(receiver, p)

\* tuning.go:89-91, BaselineConfirmedOnly: "every delta decodes on arrival".
ConfirmedOnlyDecodes ==
  mode = "confirmedOnly" =>
    \A p \in Packets : ~ResyncNeeded(receiver, p)

\* statesync.go:150-152 on Confirm, "the newest version the peer is known to
\* hold": the client reconstructed that version.
ConfirmedIsHeld == sender.confirmed \in applied \cup { NoTick }

\* ... which is so where the confirmed baseline is all there is.
ConfirmedOnlyIsHeld == mode = "confirmedOnly" => ConfirmedIsHeld

\* tuning.go:85-88, BaselineSpeculative is "the right declaration for
\* loss-free local links": while every datagram has come in order, none needs
\* a resync, in any mode.
InOrderDecodes ==
  \A p \in Packets :
    applied = 1 .. p.tick - 1 => ~ResyncNeeded(receiver, p)

\* The tick of the last datagram the client's layer handed up, 0 for none.
LastDelivered == IF clayer.deliveredAny THEN clayer.delivered + 1 ELSE 0

\* A client whose last packet did not decode is never forgotten: its request
\* is under way, or the sender owes it a snapshot, or one newer than the
\* refused packet has been sent.
NoWedge ==
  LastDelivered > NewestTick(receiver) /\ LastDelivered > 0
    => \/ resyncs > 0
       \/ sender.needSnap
       \/ tick - sender.sends > LastDelivered

\* What the stream promises (Replica), seen through the newest version.
View == IF Synced(receiver) THEN receiver[Len(receiver)] ELSE [ tick |-> 0 ]

Abstract == INSTANCE Replica WITH view <- View

\* The stream is a replica of the committed worlds that only moves forward.
StreamIsReplica == Abstract!Spec
=============================================================================
