---------------------------- MODULE WatchedChain ----------------------------
(***************************************************************************)
(* What a federator watches and where it votes: the blocks of one chain    *)
(* with the Cross events in them, which may be reorganised, and the        *)
(* federation of the other chain.  The modules of the federators add their *)
(* process and leave it alone in the actions of this module.               *)
(***************************************************************************)
EXTENDS Integers, FiniteSets

CONSTANTS
    Events,       \* the Cross events that may be logged
    ReorgDepth,   \* blocks a reorganisation replaces at most
    MaxHeight, MaxReorgs       \* bounds

ASSUME WatchedChainConstants == {ReorgDepth, MaxHeight, MaxReorgs} \subseteq Nat

VARIABLES
    height,       \* number of the watched chain's last block
    block,        \* block[e]: the block that holds e, 0 if it is not logged
    version,      \* version[e]: how often e changed its block
    voted,        \* ids this federator voted for on the other chain
    processed,    \* ids the other chain's federation processed
    late          \* votes that were sent and whose receipt nobody awaits

chainVars == <<height, block, version>>
sideVars  == <<voted, processed, late>>

ChainInit(h) ==
    /\ height = h
    /\ block \in [Events -> 0..h]
    /\ version = [e \in Events |-> 0]
    /\ voted = {} /\ processed = {} /\ late = {}

Logged(e) == block[e] # 0

(* The federation of the other chain hashes a transfer in the form of its   *)
(* version; another contract, of the newest version, may take its place.    *)
Forms == {"v3", "v4", "new"}

(* The transaction id of an event, as it is logged now: it hashes the block *)
(* hash.  The form is what the contract makes of it.                        *)
IdNow(e, form) == [event |-> e, version |-> version[e], form |-> form]

IsNow(id) == id.version = version[id.event]

(* getPastEvents *)
PastEvents(from, to) ==
    {[event |-> e, version |-> version[e], block |-> block[e]] :
        e \in {d \in Events : Logged(d) /\ block[d] \in from..to}}

-----------------------------------------------------------------------------
NewBlock ==
    /\ height < MaxHeight
    /\ height' = height + 1
    /\ \E new \in SUBSET {e \in Events : block[e] = 0} :
          block' = [e \in Events |-> IF e \in new THEN height' ELSE block[e]]
    /\ UNCHANGED <<version, sideVars>>

Reorganise(e, b) ==
    /\ Logged(e)
    /\ \A f \in Events : version[f] < MaxReorgs    \* bounds the model
    /\ {block[e], b} \subseteq (height - ReorgDepth + 1)..height
    /\ block' = [block EXCEPT ![e] = b]
    /\ version' = [version EXCEPT ![e] = @ + 1]
    /\ UNCHANGED <<height, sideVars>>

(* voteTransaction of the contract: it records no vote for a transfer that  *)
(* is processed, and this vote may be the one that completes the quorum.    *)
Mined(id) ==
    IF id \in processed THEN UNCHANGED <<voted, processed>>
    ELSE /\ voted' = voted \cup {id}
         /\ processed' \in {processed, processed \cup {id}}

(* A vote of the past is mined at last. *)
MineLate(id) ==
    /\ id \in late
    /\ late' = late \ {id}
    /\ Mined(id)
    /\ UNCHANGED chainVars

(* A vote that the contract refuses changes nothing. *)
RefuseLate(id) ==
    /\ id \in late
    /\ late' = late \ {id}
    /\ UNCHANGED <<chainVars, voted, processed>>

(* The others have a quorum without this federator. *)
OthersProcess(id) ==
    /\ Logged(id.event)
    /\ processed' = processed \cup {id}
    /\ UNCHANGED <<chainVars, voted, late>>

-----------------------------------------------------------------------------
Ids == [event: Events, version: Nat, form: Forms]

ChainTypeOK ==
    /\ height \in Nat
    /\ block \in [Events -> 0..height]
    /\ version \in [Events -> Nat]
    /\ \A s \in {voted, processed, late} : s \subseteq Ids
=============================================================================
