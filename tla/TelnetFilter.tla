---------------------------- MODULE TelnetFilter ----------------------------
(***************************************************************************)
(* tn_rx_byte() and the receive loop of tn_serve() around it: the telnet   *)
(* negotiation is kept out of the guest's shell and answered into a small  *)
(* reply buffer.                                                           *)
(*                                                                         *)
(* The client sends whole tokens: a data byte (0xFF doubled), an Enter, a  *)
(* negotiation, a subnegotiation, a command.  TCP may cut the stream       *)
(* anywhere, so a recv() may end in the middle of a token.                 *)
(***************************************************************************)
EXTENDS Naturals, Sequences, FiniteSets

CONSTANTS
  REPLY,        \* sizeof(reply)
  CHUNK,        \* sizeof(in)
  MaxTokens     \* bound: tokens of a session

ASSUME FilterAssumption ==
  REPLY \in Nat /\ REPLY >= 3 /\ CHUNK \in Nat \ {0} /\ MaxTokens \in Nat

IAC == 255
DONT == 254
DO == 253
WONT == 252
WILL == 251
SB == 250
SE == 240
NOP == 241
ECHO == 1
SGA == 3
CR == 13
LF == 10
NUL == 0

VARIABLES
  tn_state, tn_verb, tn_saw_cr,
  tn_said,      \* tn_said_echo, tn_said_sga: options announced in a reply
  reply,        \* the rn bytes of the reply buffer
  in,           \* bytes taken from the current recv()
  stream,       \* rest of the token the client is sending
  tokens,       \* tokens sent
  guest,        \* bytes put into tn_rx
  meant,        \* what the client meant the guest to get
  wills         \* WILLs sent this session, by option

clientVars == << stream, tokens, meant >>
filterVars == << tn_state, tn_verb, tn_saw_cr, tn_said, reply, in, guest, wills,
           clientVars >>

Options == {ECHO, SGA, 24}                       \* 24 is neither
Verbs == {WILL, WONT, DO, DONT}
Data == {65, LF, IAC}                            \* a letter, a line feed, 0xFF

\* What a client puts on the wire, and what the guest should see of it.
Tokens ==
  {[bytes |-> IF d = IAC THEN << IAC, IAC >> ELSE << d >>,
    data |-> << d >>] : d \in Data}
  \cup {[bytes |-> << CR, e >>, data |-> << CR >>] : e \in {LF, NUL}}
  \cup {[bytes |-> << IAC, v, o >>, data |-> << >>] :
          v \in Verbs, o \in Options}
  \cup {[bytes |-> << IAC, SB, 24, IAC, IAC, 65, IAC, SE >>, data |-> << >>],
        [bytes |-> << IAC, NOP >>, data |-> << >>]}

FilterTypeOK ==
  /\ tn_state \in {"data", "iac", "opt", "sb", "sb_iac"}
  /\ tn_verb \in Verbs \cup {0}
  /\ tn_saw_cr \in BOOLEAN
  /\ tn_said \subseteq {ECHO, SGA}
  /\ reply \in Seq(0..255) /\ Len(reply) <= REPLY
  /\ in \in 0..CHUNK
  /\ stream \in Seq(0..255)
  /\ tokens \in 0..MaxTokens
  /\ guest \in Seq(0..255) /\ meant \in Seq(0..255)
  /\ wills \in [{ECHO, SGA} -> Nat]

FilterInit ==
  /\ tn_state = "data" /\ tn_verb = 0 /\ tn_saw_cr = FALSE
  /\ tn_said = {}
  /\ reply = << >> /\ in = 0
  /\ stream = << >> /\ tokens = 0
  /\ guest = << >> /\ meant = << >>
  /\ wills = [o \in {ECHO, SGA} |-> 1]         \* tn_hello
-----------------------------------------------------------------------------
(* tn_rx_byte(b), one operator per state of the parser *)

Goto(s) == tn_state' = s
Silent  == UNCHANGED << reply, tn_said, wills >>
Kept    == UNCHANGED << guest, tn_saw_cr >>

\* Enter is CR LF or CR NUL: the CR is passed on and the tail eaten.
InData(b) ==
  /\ UNCHANGED tn_verb
  /\ Silent
  /\ \/ b = IAC /\ Goto("iac") /\ Kept
     \/ /\ tn_saw_cr /\ b \in {NUL, LF}
        /\ Goto("data")
        /\ tn_saw_cr' = FALSE
        /\ UNCHANGED guest
     \/ /\ b # IAC /\ ~(tn_saw_cr /\ b \in {NUL, LF})
        /\ Goto("data")
        /\ tn_saw_cr' = (b = CR)
        /\ guest' = Append(guest, b)

InIac(b) ==
  /\ tn_verb' = IF b \in Verbs THEN b ELSE tn_verb
  /\ Silent
  /\ \/ /\ b = IAC
        /\ Goto("data")
        /\ tn_saw_cr' = FALSE
        /\ guest' = Append(guest, IAC)
     \/ b \in Verbs /\ Goto("opt") /\ Kept
     \/ b = SB /\ Goto("sb") /\ Kept
     \/ b \notin Verbs \cup {IAC, SB} /\ Goto("data") /\ Kept

Answer(verb, o) == reply' = reply \o << IAC, verb, o >>

\* Mutant: the announcement is not remembered.
MutAnnounceAlways(o) ==
  /\ Answer(WILL, o)
  /\ wills' = [wills EXCEPT ![o] = @ + 1]
  /\ UNCHANGED tn_said

\* The client asks for an option of ours.
Announce(o) ==
  IF o \in tn_said THEN Silent
  ELSE /\ Answer(WILL, o)
       /\ wills' = [wills EXCEPT ![o] = @ + 1]
       /\ tn_said' = tn_said \cup {o}

\* DO and WILL are requests and get an answer, DONT and WONT do not.
InOpt(b) ==
  /\ Goto("data") /\ Kept
  /\ UNCHANGED tn_verb
  /\ \/ tn_verb = DO /\ b \in {ECHO, SGA} /\ Announce(b)
     \/ /\ tn_verb = DO /\ b \notin {ECHO, SGA}
        /\ Answer(WONT, b)
        /\ UNCHANGED << tn_said, wills >>
     \/ /\ tn_verb = WILL
        /\ Answer(IF b = SGA THEN DO ELSE DONT, b)
        /\ UNCHANGED << tn_said, wills >>
     \/ tn_verb \in {DONT, WONT} /\ Silent

InSb(b) ==
  /\ Goto(IF b = IAC THEN "sb_iac" ELSE "sb")
  /\ Kept /\ Silent /\ UNCHANGED tn_verb

\* IAC IAC inside a subnegotiation is escaped data, not the end.
InSbIac(b) ==
  /\ Goto(IF b = SE THEN "data" ELSE "sb")
  /\ Kept /\ Silent /\ UNCHANGED tn_verb

TnRxByte(b) ==
  \/ tn_state = "data" /\ InData(b)
  \/ tn_state = "iac" /\ InIac(b)
  \/ tn_state = "opt" /\ InOpt(b)
  \/ tn_state = "sb" /\ InSb(b)
  \/ tn_state = "sb_iac" /\ InSbIac(b)
-----------------------------------------------------------------------------
(* The loop of tn_serve() over the bytes of one recv() *)

\* "flush well before the buffer can overrun"
Due == Len(reply) > REPLY - 3

Receive ==
  /\ stream # << >>
  /\ in < CHUNK
  /\ ~Due
  /\ TnRxByte(Head(stream))
  /\ in' = in + 1
  /\ stream' = Tail(stream)
  /\ UNCHANGED << tokens, meant >>

\* A reply buffer that could overrun, or the end of the recv(): the reply is
\* sent.
SendReply ==
  /\ Due \/ in > 0
  /\ reply' = << >>
  /\ in' = IF Due THEN in ELSE 0
  /\ UNCHANGED << tn_state, tn_verb, tn_saw_cr, tn_said, guest, wills,
                  clientVars >>

\* The client sends its next token.
Send(t) ==
  /\ stream = << >>
  /\ tokens < MaxTokens
  /\ stream' = t.bytes
  /\ meant' = meant \o t.data
  /\ tokens' = tokens + 1
  /\ UNCHANGED << tn_state, tn_verb, tn_saw_cr, tn_said, reply, in, guest,
                  wills >>

\* Mutant: the parser goes on where the last client left it.
MutNewSession ==
  /\ tn_said' = {}
  /\ reply' = << >> /\ in' = 0
  /\ stream' = << >> /\ tokens' = 0
  /\ guest' = << >> /\ meant' = << >>
  /\ wills' = [o \in {ECHO, SGA} |-> 1]
  /\ UNCHANGED << tn_state, tn_verb, tn_saw_cr >>

\* The client goes away, in the middle of a token even, and tn_serve() greets
\* the next one.
NewSession ==
  /\ tn_state' = "data" /\ tn_saw_cr' = FALSE
  /\ tn_said' = {}
  /\ reply' = << >> /\ in' = 0
  /\ stream' = << >> /\ tokens' = 0
  /\ guest' = << >> /\ meant' = << >>
  /\ wills' = [o \in {ECHO, SGA} |-> 1]
  /\ UNCHANGED tn_verb

FilterNext == Receive \/ SendReply \/ NewSession \/ \E t \in Tokens : Send(t)

FilterSpec == FilterInit /\ [][FilterNext]_filterVars
-----------------------------------------------------------------------------
(* Properties *)

\* tn_rx_byte() passes to the guest exactly what the client meant as data, for
\* every mixture of data, Enter, negotiation and escapes, every cut of the
\* stream, and whatever the client before it left unfinished.
DataIntact == stream = << >> => guest = meant /\ tn_state = "data"

\* tn_rx_byte()'s answers stay bounded.  No ping-pong: the greeting apart (tn_hello
\* announces both options and sets no flag), an option is announced once a session,
\* however often the client asks for it.  And however many requests come in one
\* recv(), the answers stay within the reply buffer.
RepliesBounded ==
  /\ \A o \in {ECHO, SGA} : wills[o] <= 2
  /\ Len(reply) <= REPLY
=============================================================================
