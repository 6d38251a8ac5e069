----------------------------- MODULE SmtpSession ------------------------------
(***************************************************************************)
(* One connection of the SMTP service (oobsrv/smtp.go): the teeConn copies *)
(* what go-smtp reads from the connection, and Data takes the envelope     *)
(* from that copy, because go-smtp's own parse normalises the paths.       *)
(*                                                                         *)
(* go-smtp and the client are external.  go-smtp reads a chunk when its    *)
(* buffer is empty, handles the lines of the chunk one by one, checks the  *)
(* order of commands and the number of recipients, and calls Reset after   *)
(* RSET, after a second EHLO and after the end of Data.  The client may    *)
(* pipeline (RFC 2920): it waits after STARTTLS and, as it should, after   *)
(* DATA; or it pushes the body, behind a DATA that was not answered or     *)
(* behind a BDAT, which needs no answer (RFC 3030; one chunk, the last).   *)
(* For BDAT go-smtp runs Session.Data in a goroutine of its own, next to   *)
(* the one that reads the chunk.                                           *)
(*                                                                         *)
(* A line is a unit, and so is a body, which may have an "RCPT TO:" in it; *)
(* a line cut by a chunk or by the tee's cap yields no path, like one that *)
(* is missing.  A recipient is the line that named it.                     *)
(***************************************************************************)
EXTENDS Naturals, Sequences, SequencesExt, FiniteSets

CONSTANTS
    Addresses,      \* what the client puts into RCPT TO
    Bare,           \* of these: without angle brackets, so go-smtp alone finds a path
    Malformed,      \* of these: refused by go-smtp's parser, though a raw path is found
    MaxRecipients,  \* smtpMaxRecipients
    TeeMax,         \* lines that fit into teeConnMaxBuf
    MaxLines,       \* bound: lines the client sends
    MaxAhead,       \* bound: lines on their way at a time
    None

ASSUME AddressAssumption == Bare \subseteq Addresses /\ Malformed \subseteq Addresses
ASSUME TeeAssumption == TeeMax \in Nat

VARIABLES
    wire,      \* lines sent and not read
    buffered,  \* lines read by go-smtp and not handled
    waits,     \* what the client waits for: "none", "reply", or it owes the "body"
    pushed,    \* the client sent, or will send, a body that it was not asked for
    txn,       \* which transaction the client's next line belongs to
    sent,      \* lines sent so far
    tee,       \* teeConn: buf and stopped; None once the connection is TLS
    smtp,      \* go-smtp: MAIL was accepted; what is next: "commands", for BDAT the
               \* "chunk" although Data has not begun, or the "body" that Data reads
    session,   \* smtpSession: from and recipients
    data       \* while the body is read: what Data will pass on, and what go-smtp had accepted

smtpVars == <<wire, buffered, waits, pushed, txn, sent, tee, smtp, session, data>>

Fresh == [buf |-> <<>>, stopped |-> FALSE]
NoEnvelope == [from |-> None, recipients |-> <<>>]

SmtpInit ==
    /\ wire = <<>> /\ buffered = <<>>
    /\ waits = "none" /\ pushed = FALSE /\ txn = 1 /\ sent = 0
    /\ tee = Fresh
    /\ smtp = [mail |-> FALSE, stage |-> "commands"]
    /\ session = NoEnvelope
    /\ data = None

-------------------------------------------------------------------------------
(* The client. *)

\* Lines after which go-smtp calls Reset.
Resets(l) == l.kind \in {"RSET", "BODY"}

\* A line sent before the server handled the reset that its transaction begins with.
Pipelined == \E l \in ToSet(wire \o buffered) : Resets(l)

Line(kind, to) == [kind |-> kind, to |-> to, txn |-> txn, ahead |-> Pipelined]

ClientSends(l) ==
    /\ sent < MaxLines
    /\ Len(wire \o buffered) < MaxAhead
    /\ sent' = sent + 1
    /\ wire' = Append(wire, l)
    /\ txn' = IF Resets(l) \/ l.kind = "STARTTLS" THEN txn + 1 ELSE txn
    /\ UNCHANGED <<buffered, tee, smtp, session, data>>

SendCommand ==
    /\ waits = "none" /\ waits' = "none"
    /\ \/ \E kind \in {"MAIL", "RSET"} : ClientSends(Line(kind, None))
       \/ \E a \in Addresses : ClientSends(Line("RCPT", a))
    /\ UNCHANGED pushed

\* A command that the client waits for.
SendAndWait ==
    /\ waits = "none" /\ waits' = "reply"
    /\ \/ ClientSends(Line("DATA", None))
       \/ tee # None /\ ClientSends(Line("STARTTLS", None))
    /\ UNCHANGED pushed

\* A command with the body right behind it.
SendAndPush ==
    /\ waits = "none" /\ waits' = "body"
    /\ \E kind \in {"DATA", "BDAT"} : ClientSends(Line(kind, None))
    /\ pushed' = TRUE

SendBody ==
    /\ waits = "body" /\ waits' = "none"
    /\ \E a \in Addresses \union {None} : ClientSends(Line("BODY", a))
    /\ UNCHANGED pushed

-------------------------------------------------------------------------------
(* The connection. *)

\* Faulty variant: each Read overwrites the copy.
CopiedLast(chunk) ==
    SubSeq(chunk, 1, IF Len(chunk) < TeeMax THEN Len(chunk) ELSE TeeMax)

\* teeConn.Read: the copy ends at the cap.
Copied(chunk) ==
    LET all == tee.buf \o chunk IN SubSeq(all, 1, IF Len(all) < TeeMax THEN Len(all) ELSE TeeMax)

Read ==
    /\ buffered = <<>>
    /\ \E n \in 1 .. Len(wire) :
        /\ buffered' = SubSeq(wire, 1, n)
        /\ wire' = SubSeq(wire, n + 1, Len(wire))
        /\ IF tee = None \/ tee.stopped THEN UNCHANGED tee
           ELSE tee' = [tee EXCEPT !.buf = Copied(SubSeq(wire, 1, n))]
    /\ UNCHANGED <<waits, pushed, txn, sent, smtp, session, data>>

Handles(kind) == buffered # <<>> /\ Head(buffered).kind = kind /\ buffered' = Tail(buffered)

-------------------------------------------------------------------------------
(* smtpSession, as go-smtp calls it. *)

Mail ==
    /\ Handles("MAIL")
    /\ smtp' = [smtp EXCEPT !.mail = TRUE]
    /\ session' = [session EXCEPT !.from = Head(buffered)]
    /\ UNCHANGED <<wire, waits, pushed, txn, sent, tee, data>>

\* What go-smtp refuses never reaches the session.
Refused(l) ==
    \/ ~smtp.mail
    \/ l.to \in Malformed
    \/ Len(session.recipients) >= MaxRecipients

Rcpt ==
    /\ Handles("RCPT")
    /\ session' = IF Refused(Head(buffered)) THEN session
                  ELSE [session EXCEPT !.recipients = Append(@, Head(buffered))]
    /\ UNCHANGED <<wire, waits, pushed, txn, sent, tee, smtp, data>>

\* A line that names a recipient, be it one of a body.
NamesRecipient(l) == l.kind = "RCPT" \/ (l.kind = "BODY" /\ l.to # None)

\* parseRawEnvelope: the last path of a MAIL line, the paths of all RCPT lines.
RawFrom ==
    LET mails == {i \in DOMAIN tee.buf : tee.buf[i].kind = "MAIL"}
    IN IF mails = {} THEN None ELSE tee.buf[Max(mails)]
RawRecipients == {l \in ToSet(tee.buf) : NamesRecipient(l) /\ l.to \notin Bare}

\* Raw values where extraction found any, parsed values otherwise.  A set, since
\* onSMTPData skips what is repeated.
Envelope ==
    [from       |-> IF tee # None /\ RawFrom # None THEN RawFrom ELSE session.from,
     recipients |-> IF tee # None /\ RawRecipients # {} THEN RawRecipients ELSE ToSet(session.recipients)]

\* The snapshot, for a line of the transaction that the command ends.
Snapshot(l) ==
    /\ data' = [envelope |-> Envelope, accepted |-> ToSet(session.recipients), txn |-> l.txn,
                full |-> tee # None /\ Len(tee.buf) = TeeMax]
    /\ tee' = IF tee = None THEN None ELSE [tee EXCEPT !.stopped = TRUE]

\* DATA and BDAT out of order are refused by go-smtp.
InOrder == smtp.mail /\ session.recipients # <<>>

\* Data begins, in the goroutine that reads the connection.
Data ==
    /\ Handles("DATA")
    /\ IF InOrder THEN Snapshot(Head(buffered)) /\ smtp' = [smtp EXCEPT !.stage = "body"]
                  ELSE UNCHANGED <<data, tee, smtp>>
    /\ waits' = IF waits # "reply" \/ wire \o buffered' # <<>> THEN waits
                ELSE IF InOrder THEN "body" ELSE "none"
    /\ UNCHANGED <<wire, pushed, txn, sent, session>>

Bdat ==
    /\ Handles("BDAT")
    /\ smtp' = IF InOrder THEN [smtp EXCEPT !.stage = "chunk"] ELSE smtp
    /\ UNCHANGED <<wire, waits, pushed, txn, sent, tee, session, data>>

\* Data begins, in the goroutine of the chunk: the other one may have read in between.
ChunkData ==
    /\ smtp.stage = "chunk"
    /\ Snapshot(session.from)
    /\ smtp' = [smtp EXCEPT !.stage = "body"]
    /\ UNCHANGED <<wire, buffered, waits, pushed, txn, sent, session>>

\* Faulty variant: the tee goes on where it was.
ResetKeepsTee ==
    session' = NoEnvelope /\ tee' = IF tee = None THEN None ELSE [tee EXCEPT !.stopped = FALSE]

\* smtpSession.Reset.
Reset == session' = NoEnvelope /\ tee' = IF tee = None THEN None ELSE Fresh

\* The body was read, onSMTPData has the message, go-smtp resets.
DataEnds ==
    /\ smtp.stage = "body"
    /\ Handles("BODY")
    /\ smtp' = [mail |-> FALSE, stage |-> "commands"]
    /\ Reset
    /\ data' = None
    /\ UNCHANGED <<wire, waits, pushed, txn, sent>>

\* The body behind a command that was refused: go-smtp takes its lines for commands.
BodyAsCommands ==
    /\ smtp.stage = "commands"
    /\ Handles("BODY")
    /\ session' = IF ~NamesRecipient(Head(buffered)) \/ Refused(Head(buffered)) THEN session
                  ELSE [session EXCEPT !.recipients = Append(@, Head(buffered))]
    /\ UNCHANGED <<wire, waits, pushed, txn, sent, tee, smtp, data>>

Rset ==
    /\ Handles("RSET")
    /\ smtp' = [smtp EXCEPT !.mail = FALSE]
    /\ Reset
    /\ UNCHANGED <<wire, waits, pushed, txn, sent, data>>

\* NewSession after the upgrade: the connection is a *tls.Conn, so no tee.
StartTLS ==
    /\ Handles("STARTTLS")
    /\ waits' = "none"
    /\ smtp' = [smtp EXCEPT !.mail = FALSE]
    /\ session' = NoEnvelope
    /\ tee' = None
    /\ UNCHANGED <<wire, pushed, txn, sent, data>>

\* The client has sent what it may and all of it was handled.
Quit ==
    /\ sent = MaxLines /\ wire = <<>> /\ buffered = <<>>
    /\ UNCHANGED smtpVars

SmtpNext ==
    \/ SendCommand \/ SendAndWait \/ SendAndPush \/ SendBody
    \/ Read
    \/ Mail \/ Rcpt \/ Data \/ Bdat \/ ChunkData \/ DataEnds \/ BodyAsCommands \/ Rset \/ StartTLS
    \/ Quit

SmtpSpec == SmtpInit /\ [][SmtpNext]_smtpVars

-------------------------------------------------------------------------------
PathsOf(lines) == {l.to : l \in lines}

(* As long as the client has pushed no body, the envelope passed on is of the   *)
(* transaction that DATA ended, although the tee knows nothing of transactions  *)
(* and is ahead of the commands handled: no recipient of the previous message   *)
(* gets a copy of this one.                                                     *)
OwnTransactionOnly ==
    data # None /\ ~pushed =>
        /\ data.envelope.from.txn = data.txn
        /\ \A l \in data.envelope.recipients : l.txn = data.txn

(* Every accepted recipient is passed on if each had a raw path, none was sent  *)
(* ahead of the reply to the reset before it, and the tee was not full, also    *)
(* when bodies are pushed and the chunk is read next to the snapshot.           *)
WellSpacedIsComplete ==
    data # None
    /\ ~data.full
    /\ (\A l \in data.accepted : ~l.ahead /\ l.to \notin Bare)
    => PathsOf(data.accepted) \subseteq PathsOf(data.envelope.recipients)

===============================================================================
