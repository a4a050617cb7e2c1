----------------------------- MODULE RunBoardTarget -----------------------------
(*****************************************************************************)
(* The main loop of the runboard program (runboard.c): it opens the screen    *)
(* and the serial line, reads the line in pieces with a nap after each, puts  *)
(* the bytes together to lines, paints a frame that is whole and ends with    *)
(* the quit line.                                                             *)
(*                                                                            *)
(* A line is a sequence of cells, each a part of a frame with the frame it    *)
(* belongs to; a cell stands for a run of bytes that arrives together.        *)
(*****************************************************************************)
EXTENDS Integers, Sequences, SequencesExt

CONSTANTS LineMax,  \* the cells that the buffer of a line holds
          Nothing   \* no frame has been shown

ASSUME TargetAssumption == LineMax \in Nat /\ LineMax > 3

VARIABLES phase,      \* "fb", "serial", "running", or "exited", by itself or killed
          resources,  \* what the program has opened: the serial line, until its settings are back
          wire,       \* the cells on their way to it
          line, overflow,
          shown       \* the frames that the parts on the screen come from

targetVars == <<phase, resources, wire, line, overflow, shown>>

Newline == [part |-> "newline"]
Quit == [part |-> "quit"]

TargetInit ==
    /\ phase = "fb" /\ resources = {} /\ wire = <<>>
    /\ line = <<>> /\ overflow = FALSE /\ shown = Nothing

-----------------------------------------------------------------------------
(* Start.                                                                    *)

OpenFramebuffer ==
    /\ phase = "fb"
    /\ \/ phase' = "serial" /\ resources' = {"framebuffer"}
       \/ phase' = "exited" /\ UNCHANGED resources
    /\ UNCHANGED <<wire, line, overflow, shown>>

OpenSerial ==
    /\ phase = "serial"
    /\ \/ phase' = "running" /\ resources' = resources \cup {"serial"}
       \/ phase' = "exited" /\ resources' = resources \ {"framebuffer"}
    /\ UNCHANGED <<wire, line, overflow, shown>>

(* The kernel has had no room for the mapping: mmap of oabi_runtime.c returns *)
(* -ENOMEM, which is not MAP_FAILED, so main goes on to the serial line, and  *)
(* the first pixel of draw_screen kills it with the line still raw.           *)
MapsNothing ==
    /\ phase = "serial"
    /\ phase' = "exited" /\ resources' = {"serial"}
    /\ UNCHANGED <<wire, line, overflow, shown>>

-----------------------------------------------------------------------------
(* Frames.                                                                   *)

Cells(part, frame, count) == [i \in 1 .. count |-> [part |-> part, frame |-> frame]]
Size(frame) == CASE frame.experiments = "pair" -> 1
                 [] frame.experiments = "long" -> LineMax - 3
                 [] OTHER -> 0
Payload(frame) == Cells("server", frame, 1) \o Cells("codex", frame, 1)
                  \o Cells("experiments", frame, Size(frame))

(* parse_rb1: the line begins with a head whose length is that of the rest,   *)
(* and ends with the checksum of just this payload.                           *)
Framed(cells) == Len(cells) >= 2 /\ cells[1].part = "head" /\ Last(cells).part = "tail"
Body(cells) == SubSeq(cells, 2, Len(cells) - 1)
LengthOk(cells) == Len(Body(cells)) = Len(Payload(cells[1].frame))
\* Mutant: the checksum is not compared.
CrcIgnored(cells) == TRUE
CrcOk(cells) == Body(cells) = Payload(Last(cells).frame)

ParseOk(cells) == Framed(cells) /\ LengthOk(cells) /\ CrcOk(cells)

(* A field is taken from where its name is first found.                       *)
Found(cells, part) ==
    LET places == {i \in DOMAIN cells : cells[i].part = part}
    IN  IF places = {} THEN Nothing ELSE cells[Min(places)].frame

-----------------------------------------------------------------------------
(* The loop.  It handles what it has read byte by byte; here all that has     *)
(* arrived of a line is one step, and the end of the line the next.           *)

Running == phase = "running" /\ wire # <<>>
is_quit(cells) == cells = <<Quit>>

Read ==
    /\ Running /\ Head(wire) # Newline
    /\ \E count \in 1 .. Len(wire) :
          LET piece == SubSeq(wire, 1, count)
          IN  /\ \A i \in 1 .. count : wire[i] # Newline
              /\ count < Len(wire) => wire[count + 1] = Newline
              /\ wire' = SubSeq(wire, count + 1, Len(wire))
              /\ IF overflow \/ Len(line) + count > LineMax
                 THEN overflow' = TRUE /\ line' = SubSeq(line \o piece, 1, LineMax)
                 ELSE UNCHANGED overflow /\ line' = line \o piece
    /\ UNCHANGED <<phase, resources, shown>>

EndLine ==
    /\ Running /\ Head(wire) = Newline
    /\ overflow \/ ~is_quit(line)
    /\ wire' = Tail(wire) /\ line' = <<>> /\ overflow' = FALSE
    /\ shown' = IF ~overflow /\ line # <<>> /\ ParseOk(line)
                THEN [server |-> Found(line, "server"), codex |-> Found(line, "codex")]
                ELSE shown
    /\ UNCHANGED <<phase, resources>>

(* The serial line is restored and closed first, then the screen.             *)
\* Mutant: the serial line is not given back.
QuitKeepsSerial ==
    /\ Running /\ Head(wire) = Newline
    /\ ~overflow /\ is_quit(line)
    /\ phase' = "exited" /\ resources' = resources \ {"framebuffer"}
    /\ wire' = Tail(wire) /\ line' = <<>>
    /\ UNCHANGED <<overflow, shown>>
QuitLine ==
    /\ Running /\ Head(wire) = Newline
    /\ ~overflow /\ is_quit(line)
    /\ phase' = "exited" /\ resources' = resources \ {"serial", "framebuffer"}
    /\ wire' = Tail(wire) /\ line' = <<>>
    /\ UNCHANGED <<overflow, shown>>
=============================================================================
