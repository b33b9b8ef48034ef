------------------------------ MODULE Control -------------------------------
(***************************************************************************)
(* The control server (Control.cpp): in each update the worker listens,    *)
(* accepts a client and reads the commands it has sent.  What one call of  *)
(* Writer_ControlRecv has read is in a buffer of the call; whatever is not *)
(* a whole line yet stays at its start and is parsed once more with the    *)
(* next read, although its spaces are '\0' by then.  What is still there   *)
(* when there is no more to read is lost with the call.                    *)
(*                                                                         *)
(* A command is the sequence of its words; Session and Connection say what *)
(* the commands do.                                                        *)
(***************************************************************************)
EXTENDS Integers, Sequences, SequencesExt

CONSTANTS
  Letters,          \* what a word is made of
  CommandBuffer,    \* size of Buffer
  MaxWords,         \* size of ArgV
  MaxSent,          \* bound: characters sent
  MaxClients        \* bound: clients that connect

Nul == "nul"

ASSUME ControlAssumption ==
  /\ CommandBuffer \in Nat \ {0} /\ MaxWords \in Nat \ {0}
  /\ MaxSent \in Nat /\ MaxClients \in Nat
  /\ Letters \intersect {" ", "\n", Nul} = {}

Characters == Letters \union {" ", "\n"}
IsSpace(ch)   == ch \in {" ", Nul}

VARIABLES
  control,     \* GControlState
  receiving,   \* the worker is in Writer_ControlRecv
  buffer,      \* its Buffer, up to Head
  visited,     \* clients that have connected so far
  knocking,    \* a client waits to be accepted
  unread,      \* what the client has sent and the worker has not read
  hungUp,      \* the client has closed its end
  sentCount,   \* characters sent so far
  stream,      \* history: what was read from the client
  torn,        \* history: a call has returned with a part of a line
  dispatched   \* commands of the client given to Writer_ControlDispatch

clientSide  == <<visited, knocking, unread, hungUp, sentCount>>
serverSide  == <<control, receiving, buffer, stream, torn, dispatched>>
controlVars == <<clientSide, serverSide>>

ControlInit ==
  /\ control = "closed" /\ receiving = FALSE /\ buffer = <<>>
  /\ visited = 0 /\ knocking = FALSE /\ unread = <<>> /\ hungUp = FALSE /\ sentCount = 0
  /\ stream = <<>> /\ torn = FALSE /\ dispatched = <<>>

(***************************************************************************)
(* The parser                                                              *)
(***************************************************************************)
\* "*Cursor = '\0'"
Blank(p, i) == [p EXCEPT !.text = [@ EXCEPT ![i] = Nul]]

\* WhitespaceSkip at the start of a word: ArgV has room, or the word is dropped.
OpenWord(p) == [p EXCEPT !.state = "word",
                         !.words = IF Len(@) < MaxWords THEN Append(@, <<>>) ELSE @,
                         !.kept = Len(p.words) < MaxWords]

\* Word
InWord(p, i) ==
  LET ch == p.text[i] IN
  CASE IsSpace(ch) -> Blank([p EXCEPT !.state = "whitespace"], i)
    [] ch = "\n"   -> Blank([p EXCEPT !.state = "crlf", !.words = <<>>, !.spent = i,
                                      !.lines = Append(@, p.words)], i)
    [] OTHER       -> [p EXCEPT !.words =
                         IF p.kept THEN [p.words EXCEPT ![Len(p.words)] = Append(@, ch)] ELSE @]

\* One turn of the loop.
ParseCharacter(p, i) ==
  LET ch == p.text[i] IN
  CASE p.state = "word"                     -> InWord(p, i)
    [] p.state = "crlf" /\ ch = "\n"        -> p
    [] p.state # "word" /\ IsSpace(ch)      -> [p EXCEPT !.state = "whitespace"]
    [] OTHER                                -> InWord(OpenWord(p), i)

\* The loop, over all that is in the buffer.  (Choosing from the one result of a turn
\* makes TLC evaluate it once.)
Parse(text) ==
  LET parsed[i \in 0 .. Len(text)] ==
        IF i = 0
        THEN [text |-> text, state |-> "crlf", words |-> <<>>, kept |-> FALSE, spent |-> 0,
              lines |-> <<>>]
        ELSE CHOOSE q \in {ParseCharacter(p, i) : p \in {parsed[i - 1]}} : TRUE
  IN parsed[Len(text)]

(***************************************************************************)
(* Slips: what a definition below would be with a likely mistake in the    *)
(* code.  Each breaks a property; the specification uses none of them.     *)
(***************************************************************************)
\* Lets go of all it has read.
UnspentSlip(p) == <<>>

\* A client that has hung up keeps the server.
HangUpSlip ==
  /\ receiving
  /\ (unread = <<>> /\ hungUp) \/ (unread # <<>> /\ CommandBuffer = Len(buffer))
  /\ receiving' = FALSE /\ buffer' = <<>>
  /\ UNCHANGED <<control, stream, torn, dispatched, clientSide>>

(***************************************************************************)
(* Writer_ControlListen and Writer_ControlAccept                           *)
(***************************************************************************)
\* Some port is free, or none of those that it tries.
ControlListen ==
  /\ control = "closed"
  /\ control' \in {"listening", "failed"}
  /\ UNCHANGED <<receiving, buffer, stream, torn, dispatched, clientSide>>

\* "Return == -1": the socket that listens is closed, for good.
AcceptFails ==
  /\ control = "listening"
  /\ control' = "failed"
  /\ UNCHANGED <<receiving, buffer, stream, torn, dispatched, clientSide>>

ControlAccept ==
  /\ control = "listening" /\ knocking
  /\ control' = "accepted" /\ knocking' = FALSE
  /\ unread' = <<>> /\ hungUp' = FALSE
  /\ stream' = <<>> /\ torn' = FALSE /\ dispatched' = <<>>
  /\ UNCHANGED <<receiving, buffer, visited, sentCount>>

(***************************************************************************)
(* Writer_ControlRecv                                                      *)
(***************************************************************************)
BeginRecv ==
  /\ control = "accepted" /\ ~receiving
  /\ receiving' = TRUE
  /\ UNCHANGED <<control, buffer, stream, torn, dispatched, clientSide>>

ReadSize == CommandBuffer - Len(buffer)

\* "memmove(Buffer, Spent, UnspentSize)"
Unspent(p) == SubSeq(p.text, p.spent + 1, Len(p.text))

\* A read, and the commands in what is then in the buffer.
Receive ==
  LET n == Min({ReadSize, Len(unread)})
      parsed == Parse(buffer \o SubSeq(unread, 1, n)) IN
  /\ receiving
  /\ n > 0
  /\ unread' = SubSeq(unread, n + 1, Len(unread))
  /\ stream' = stream \o SubSeq(unread, 1, n)
  /\ dispatched' = dispatched \o parsed.lines
  /\ buffer' = Unspent(parsed)
  /\ UNCHANGED <<control, receiving, torn, visited, knocking, hungUp, sentCount>>

\* "Recvd <= 0": the client has hung up, or the buffer has no room.
HangUp ==
  /\ receiving
  /\ (unread = <<>> /\ hungUp) \/ (unread # <<>> /\ ReadSize = 0)
  /\ control' = "listening" /\ receiving' = FALSE /\ buffer' = <<>>
  /\ unread' = <<>> /\ hungUp' = TRUE
  /\ UNCHANGED <<stream, torn, dispatched, visited, knocking, sentCount>>

\* There is no more to read: the call returns.
EndRecv ==
  /\ receiving
  /\ unread = <<>> /\ ~hungUp
  /\ receiving' = FALSE /\ buffer' = <<>>
  /\ torn' = (torn \/ buffer # <<>>)
  /\ UNCHANGED <<control, stream, dispatched, clientSide>>

(***************************************************************************)
(* Clients                                                                 *)
(***************************************************************************)
\* A client connects, and waits for the one before it to go.  (It may send and hang
\* up before it is accepted, as well as after.)
Knock ==
  /\ control \in {"listening", "accepted"}
  /\ ~knocking /\ visited < MaxClients
  /\ visited' = visited + 1
  /\ knocking' = TRUE
  /\ UNCHANGED <<unread, hungUp, sentCount, serverSide>>

\* The client that was accepted sends a character ...
SendCharacter(ch) ==
  /\ control = "accepted" /\ ~hungUp
  /\ sentCount < MaxSent
  /\ sentCount' = sentCount + 1
  /\ unread' = Append(unread, ch)
  /\ UNCHANGED <<visited, knocking, hungUp, serverSide>>

\* ... or closes its end.
CloseEnd ==
  /\ control = "accepted" /\ ~hungUp
  /\ hungUp' = TRUE
  /\ UNCHANGED <<visited, knocking, unread, sentCount, serverSide>>

---------------------------------------------------------------------------
Serve ==
  ControlListen \/ ControlAccept \/ BeginRecv \/ Receive \/ HangUp \/ EndRecv

ControlNext ==
  \/ Serve
  \/ AcceptFails
  \/ Knock \/ CloseEnd
  \/ \E ch \in Characters : SendCharacter(ch)

\* The worker loops for ever.
ControlFairness == WF_controlVars(Serve)

ControlSpec == ControlInit /\ [][ControlNext]_controlVars /\ ControlFairness

---------------------------------------------------------------------------
\* The members of a set of numbers in ascending order.
Sorted(S) == [n \in 1 .. Cardinality(S) |->
                CHOOSE x \in S : Cardinality({y \in S : y < x}) = n - 1]

\* What a client means: its lines, without those that are empty.  Each ends with a
\* "\n" that does not follow another.
Ends(text)    == {i \in 2 .. Len(text) : text[i] = "\n" /\ text[i - 1] # "\n"}
Line(text, i) == SubSeq(text, Max({j \in 0 .. i - 1 : j = 0 \/ text[j] = "\n"}) + 1, i - 1)

\* The words of a line: what stands between spaces, and nothing after a last space.
Gap(line, i) == i = 0 \/ i = Len(line) + 1 \/ IsSpace(line[i])
Starts(line) == {i \in 1 .. Len(line) + 1 :
                   Gap(line, i - 1) /\ (i = Len(line) + 1 \/ ~Gap(line, i))}
Word(line, i) == SubSeq(line, i, Min({j \in i .. Len(line) + 1 : Gap(line, j)}) - 1)
Words(line) ==
  LET starts == Sorted(Starts(line)) IN [n \in DOMAIN starts |-> Word(line, starts[n])]

\* As many of them as fit in ArgV.
Command(line) == SubSeq(Words(line), 1, Min({MaxWords, Len(Words(line))}))

CommandsOf(text) ==
  LET ends == Sorted(Ends(text)) IN [n \in DOMAIN ends |-> Command(Line(text, ends[n]))]

\* However the lines that a client sends are cut into reads, each is dispatched once
\* and as it was sent, unless a call has returned in the middle of one.
EveryCommandOnce == torn \/ dispatched = CommandsOf(stream)

\* A client that waits is accepted when the one before it has gone, if the server has
\* not failed.
NextClientServed ==
  (knocking /\ (control = "accepted" => hungUp)) ~> (~knocking \/ control = "failed")
=============================================================================
