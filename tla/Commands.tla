------------------------------ MODULE Commands ------------------------------
(***************************************************************************)
(* The commands a user runs on a machine (src/cmd/jira-mcp/main.go): setup *)
(* and install-mcp with the files they write, the screens on which they    *)
(* ask, and install-instructions.  They share no state, and a behaviour is *)
(* about one of them.                                                      *)
(***************************************************************************)
EXTENDS Profiles

CONSTANTS Offers, Words, NumberOf, Pieces, MaxPieces, MaxRuns, MaxWrites

VARIABLES about, screen, texts, run, left, lost, runs, writes

Screens == INSTANCE SetupScreens
Guide == INSTANCE Instructions

ASSUME CommandsAssumption == Screens!ConstantsOK /\ Guide!ConstantsOK

inGuide == <<texts, run, left, lost, runs, writes>>

commandVars == <<vars, about, screen, inGuide>>

CommandsInit ==
    /\ about \in {"connections", "screens", "instructions"}
    /\ Init
    /\ about # "connections" =>
           config = Missing /\ clients = [c \in Clients |-> Missing]
    /\ Screens!Init
    /\ Guide!Init

CommandsNext ==
    \/ about = "connections" /\ Next /\ UNCHANGED <<about, screen, inGuide>>
    \/ about = "screens" /\ Screens!Next /\ UNCHANGED <<vars, about, inGuide>>
    \/ /\ about = "instructions"
       /\ Guide!Next
       /\ UNCHANGED <<vars, about, screen>>

CommandsSpec == CommandsInit /\ [][CommandsNext]_commandVars

-----------------------------------------------------------------------------
(* Properties: those of Profiles, of SetupScreens and of Instructions. *)

(* Type invariant of Profiles and SetupScreens. *)
TypesOK == TypeOK /\ Screens!TypeOK

(* The text of the user outside the managed block stays                    *)
(* (updateManagedInstructions).                                            *)
UserTextKept == Guide!UserTextKept
=============================================================================
