------------------------------- MODULE Overlay -------------------------------
(***************************************************************************)
(* The path from a transcript to the browser overlay: the callbacks, the   *)
(* caption state, the hub that broadcasts each change to the websockets of *)
(* the overlay page, and the transcript file.  A page that loses its       *)
(* socket opens another; the server notices a socket is gone when its      *)
(* endpoint reads it or when a send fails, whichever comes first.          *)
(***************************************************************************)
EXTENDS Captions, FiniteSets

CONSTANTS
  CaptionTexts,  \* texts the backend emits, after replacements and filter
  Suppressed,    \* those text.suppress_regex or text.suppress_exact match
  MaxLines,      \* CaptionState.max_lines
  MaxCharsPerLine,
  MaxTranscripts, MaxSockets \* bounds on the transcripts and the page's sockets

ASSUME OverlayAssumption ==
  /\ MaxLines \in Nat /\ MaxCharsPerLine \in Nat
  /\ MaxTranscripts \in Nat /\ MaxSockets \in Nat
  /\ CaptionTexts \subseteq Seq(STRING)

Sockets == 1..MaxSockets

VARIABLES
  snap,       \* CaptionState: committed and partial
  broadcasts, \* messages left to the loop, oldest first
  last,       \* Hub._last_message
  clients,    \* Hub._clients
  sock,       \* of each socket: "none", "opening", "open", "cut" or "ended"
  wire,       \* messages on their way over each socket
  page,       \* the page's current socket, 0 for none, and what it renders
  cues,       \* the transcript file
  emitted     \* transcripts so far

overlayVars == <<snap, broadcasts, last, clients, sock, wire, page, cues, emitted>>

Blank == CaptionMessage(NoCaption, 0)

OverlayInit ==
  /\ snap = NoCaption /\ broadcasts = <<>> /\ last = Blank
  /\ clients = {} /\ sock = [n \in Sockets |-> "none"] /\ wire = [n \in Sockets |-> <<>>]
  /\ page = [socket |-> 0, shown |-> Blank]
  /\ cues = <<>> /\ emitted = 0

----------------------------------------------------------------------------
(* A transcript arrives, or the clear key is used.                         *)

\* _mutate tells the subscribers only of a change; the hub's leaves a
\* broadcast of the message to the loop.
Become(next) ==
  /\ snap' = next
  /\ broadcasts' = IF next = snap THEN broadcasts ELSE Append(broadcasts, CaptionMessage(next, MaxCharsPerLine))

PartialArrives(text) ==
  /\ emitted < MaxTranscripts /\ emitted' = emitted + 1
  /\ Become(OnPartial(snap, text, TRUE, Suppressed))
  /\ UNCHANGED <<last, clients, sock, wire, page, cues>>

\* The transcript's own times may be missing, or lie before the last cue.
FinalArrives(text, startMs, endMs) ==
  /\ emitted < MaxTranscripts /\ emitted' = emitted + 1
  /\ Become(OnFinal(snap, text, TRUE, Suppressed, MaxLines))
  /\ cues' = IF ShouldSuppress(text, TRUE, Suppressed) THEN cues
             ELSE Append(cues, Cue(startMs, endMs, IF cues = <<>> THEN 0 ELSE Last(cues).end, emitted))
  /\ UNCHANGED <<last, clients, sock, wire, page>>

ClearCaptions ==
  /\ snap # Cleared /\ Become(Cleared)
  /\ UNCHANGED <<last, clients, sock, wire, page, cues, emitted>>

----------------------------------------------------------------------------
(* The hub and the endpoint of each socket.                                *)

\* A client whose send fails is dropped.
Broadcast ==
  /\ broadcasts # <<>> /\ broadcasts' = Tail(broadcasts)
  /\ IF Head(broadcasts) = last
       THEN UNCHANGED <<last, wire, clients>>
       ELSE /\ last' = Head(broadcasts)
            /\ wire' = [n \in Sockets |->
                 IF n \in clients /\ sock[n] = "open" THEN Append(wire[n], Head(broadcasts)) ELSE wire[n]]
            /\ clients' = {n \in clients : sock[n] = "open"}
  /\ UNCHANGED <<snap, sock, page, cues, emitted>>

\* Hub.connect: a broadcast that follows finds the client registered.  If
\* the first send fails the endpoint's finally clause removes it again.
EndpointConnects(n) ==
  /\ sock[n] = "opening"
  /\ \/ /\ sock' = [sock EXCEPT ![n] = "open"]
        /\ clients' = clients \cup {n}
        /\ wire' = [wire EXCEPT ![n] = <<last>>]
        /\ UNCHANGED page
     \/ /\ sock' = [sock EXCEPT ![n] = "cut"]
        /\ clients' = clients \cup {n}
        /\ page' = [page EXCEPT !.socket = 0] /\ UNCHANGED wire
  /\ UNCHANGED <<snap, broadcasts, last, cues, emitted>>

\* Mutant: a socket that is gone is left to the next broadcast.
EndpointEndsQuietly(n) ==
  /\ sock[n] = "cut" /\ sock' = [sock EXCEPT ![n] = "ended"]
  /\ UNCHANGED <<snap, broadcasts, last, clients, wire, page, cues, emitted>>

\* The initial send or receive_text raised: Hub.disconnect.
EndpointEnds(n) ==
  /\ sock[n] = "cut" /\ sock' = [sock EXCEPT ![n] = "ended"]
  /\ clients' = clients \ {n}
  /\ UNCHANGED <<snap, broadcasts, last, wire, page, cues, emitted>>

----------------------------------------------------------------------------
(* overlay.js.                                                             *)

PageConnects(n) ==
  /\ page.socket = 0 /\ sock[n] = "none" /\ \A m \in Sockets : m < n => sock[m] # "none"
  /\ sock' = [sock EXCEPT ![n] = "opening"] /\ page' = [page EXCEPT !.socket = n]
  /\ UNCHANGED <<snap, broadcasts, last, clients, wire, cues, emitted>>

\* renderCaption
PageRenders(n) ==
  /\ page.socket = n /\ wire[n] # <<>>
  /\ page' = [page EXCEPT !.shown = Head(wire[n])]
  /\ wire' = [wire EXCEPT ![n] = Tail(@)]
  /\ UNCHANGED <<snap, broadcasts, last, clients, sock, cues, emitted>>

\* What was on its way over a socket goes with it.
SocketCut(n) ==
  /\ sock[n] = "open" /\ sock' = [sock EXCEPT ![n] = "cut"]
  /\ wire' = [wire EXCEPT ![n] = <<>>]
  /\ page' = [page EXCEPT !.socket = 0]
  /\ UNCHANGED <<snap, broadcasts, last, clients, cues, emitted>>

OverlayNext ==
  \/ \E text \in CaptionTexts :
       PartialArrives(text) \/ \E s \in {NoTime, 1}, e \in {NoTime, 2} : FinalArrives(text, s, e)
  \/ ClearCaptions \/ Broadcast
  \/ \E n \in Sockets : \/ EndpointConnects(n) \/ EndpointEnds(n)
                        \/ PageConnects(n) \/ PageRenders(n) \/ SocketCut(n)

OverlaySpec == OverlayInit /\ [][OverlayNext]_overlayVars

----------------------------------------------------------------------------
(* Properties.                                                             *)

Display(message) == [committed |-> FlattenSeq(message.committed), partial |-> FlattenSeq(message.partial)]

\* With its socket open and nothing on its way, the page shows the text of
\* the caption state, whatever sockets broke, when it opened this one, and
\* whatever changed in between: no broadcast falls between the snapshot a
\* new client is sent and the moment the hub knows it.
PageShowsState ==
  page.socket # 0 /\ sock[page.socket] = "open" /\ wire[page.socket] = <<>> /\ broadcasts = <<>>
    => page.shown = CaptionMessage(snap, MaxCharsPerLine)

\* The hub keeps no client whose endpoint is over, a failed first send included.
NoDeadClient == \A n \in clients : sock[n] # "ended"

\* The cues of the transcript file neither overlap nor run backwards,
\* whichever bounds come from the transcript and whichever from the clock.
CuesInOrder ==
  \A i \in DOMAIN cues : /\ cues[i].start <= cues[i].end
                         /\ i > 1 => cues[i - 1].end <= cues[i].start

\* Wrapping loses and invents nothing.
WrapKeepsText ==
  Display(CaptionMessage(snap, MaxCharsPerLine))
    = [committed |-> FlattenSeq(snap.committed), partial |-> snap.partial]

\* What the viewer sees is what was said, across cut sockets and reconnects, and
\* the transcript file can be played.
OverlayIsExact == PageShowsState /\ NoDeadClient /\ WrapKeepsText /\ CuesInOrder
=============================================================================
