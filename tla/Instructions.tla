---------------------------- MODULE Instructions ----------------------------
(***************************************************************************)
(* install-instructions (src/cmd/jira-mcp/main.go): the guidance for       *)
(* agents that the program keeps between two markers in AGENTS.md and      *)
(* CLAUDE.md, among what the user wrote.                                   *)
(*                                                                         *)
(* A text is a sequence of pieces: a marker, the guidance, or a piece of   *)
(* the user's.  os.WriteFile empties a file before it fills it.            *)
(***************************************************************************)
EXTENDS SequencesExt, FiniteSetsExt, Naturals

CONSTANTS
    Pieces,    \* what the user writes
    MaxPieces, \* bound: pieces and markers of a text the user leaves
    MaxRuns,   \* bound: times the command runs
    MaxWrites  \* bound: times the user writes a file

Guides == <<"AGENTS.md", "CLAUDE.md">>

Start == "start"
End == "end"
Guidance == "guidance"
Block == <<Start, Guidance, End>>

ConstantsOK == {Start, End, Guidance} \intersect Pieces = {}

VARIABLES
    texts, \* the files; a missing one is empty
    run,   \* the command, if it runs
    left,  \* history: the text the user left in each
    lost,  \* history: files cut short, or changed while they were written
    runs, writes

vars == <<texts, run, left, lost, runs, writes>>

Files == Range(Guides)

Idle == [at |-> "idle"]

(* The place of the first, or 0. *)
Index(text, piece) ==
    IF piece \in Range(text)
    THEN Min({i \in 1..Len(text) : text[i] = piece}) ELSE 0

Managed(text) ==
    Index(text, Start) > 0 /\ Index(text, End) > Index(text, Start)

(* Mutant: what follows the block goes with it. *)
managedToEnd(text) ==
    IF Managed(text)
    THEN SubSeq(text, 1, Index(text, Start) - 1) \o Block
    ELSE text \o Block

managed(text) ==
    IF Managed(text)
    THEN SubSeq(text, 1, Index(text, Start) - 1)
             \o Block
             \o SubSeq(text, Index(text, End) + 1, Len(text))
    ELSE text \o Block

Written == BoundedSeq(Pieces \union {Start, End}, MaxPieces)

Init ==
    /\ texts = [f \in Files |-> <<>>]
    /\ left = texts
    /\ run = Idle
    /\ lost = {}
    /\ runs = 0 /\ writes = 0

installInstructions ==
    /\ run = Idle
    /\ runs < MaxRuns
    /\ runs' = runs + 1
    /\ run' = [at |-> "read", next |-> 1]
    /\ UNCHANGED <<texts, left, lost, writes>>

File == Guides[run.next]

readText ==
    /\ run.at = "read"
    /\ run' = [at |-> "truncate", next |-> run.next,
               text |-> managed(texts[File])]
    /\ UNCHANGED <<texts, left, lost, runs, writes>>

truncateText ==
    /\ run.at = "truncate"
    /\ texts' = [texts EXCEPT ![File] = <<>>]
    /\ run' = [run EXCEPT !.at = "write"]
    /\ UNCHANGED <<left, lost, runs, writes>>

writeText ==
    /\ run.at = "write"
    /\ texts' = [texts EXCEPT ![File] = run.text]
    /\ run' = IF run.next < Len(Guides)
              THEN [at |-> "read", next |-> run.next + 1]
              ELSE [at |-> "done"]
    /\ UNCHANGED <<left, lost, runs, writes>>

finish ==
    /\ run.at = "done"
    /\ run' = Idle
    /\ UNCHANGED <<texts, left, lost, runs, writes>>

(* A file cannot be read or written, or the process is killed. *)
Stop ==
    /\ run.at \in {"read", "truncate", "write"}
    /\ run' = Idle
    /\ lost' = IF run.at = "write" THEN lost \union {File} ELSE lost
    /\ UNCHANGED <<texts, left, runs, writes>>

(* The user writes a file at any time.  What an earlier run put there and  *)
(* the user keeps counts as the user's from then on.                       *)
Elsewhere(f) ==
    /\ writes < MaxWrites
    /\ writes' = writes + 1
    /\ \E text \in Written :
           /\ texts' = [texts EXCEPT ![f] = text]
           /\ left' = [left EXCEPT ![f] = text]
    /\ lost' = IF run.at \in {"truncate", "write"} /\ File = f
               THEN lost \union {f} ELSE lost \ {f}
    /\ UNCHANGED <<run, runs>>

Next ==
    \/ installInstructions \/ readText \/ truncateText \/ writeText
    \/ finish \/ Stop
    \/ \E f \in Files : Elsewhere(f)

-----------------------------------------------------------------------------
(* Properties *)

(* A start marker, what follows, and the next end marker. *)
IsBlock(text, i, j) ==
    /\ i < j /\ text[i] = Start /\ text[j] = End
    /\ \A k \in i..(j - 1) : text[k] # End

(* The new text is the old one, but for a part that is no user's: it was   *)
(* put between two pieces, or took the place of a block.                   *)
KeptOutside(old, new) ==
    \E i, j \in 0..Len(old), m \in 0..Len(new) :
        /\ i = j \/ IsBlock(old, i + 1, j)
        /\ \A k \in (i + 1)..m : new[k] \notin Pieces
        /\ new = SubSeq(old, 1, i) \o SubSeq(new, i + 1, m)
                     \o SubSeq(old, j + 1, Len(old))

Writing == IF run.at = "write" THEN {File} ELSE {}

(* Since the user last wrote a file, their text outside the block stays,   *)
(* word for word, and the guidance is there once however often the command *)
(* runs ("idempotent managed markers ..., preserving all user-authored     *)
(* text outside the managed block").  Excepted are a start the user left   *)
(* without an end, whose text the second run takes for the block; an end   *)
(* without a start before it, which hides every block; and lost files: one *)
(* that a run emptied and did not fill, and one the user wrote after the   *)
(* command had read it.                                                    *)
UserTextKept ==
    \A f \in Files \ (lost \union Writing) :
        texts[f] # left[f] =>
            /\ (Index(left[f], Start) > 0 => Index(left[f], End) > 0)
                   => KeptOutside(left[f], texts[f])
            /\ (Index(left[f], End) > 0 => Managed(left[f]))
                   => Cardinality({i \in 1..Len(texts[f]) :
                                      texts[f][i] = Guidance}) = 1
=============================================================================
