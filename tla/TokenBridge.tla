---------------------------- MODULE TokenBridge ----------------------------
(***************************************************************************)
(* The token bridge: on every chain a Bridge and a Federation contract, and*)
(* federators that watch the other chains and vote.  The vote that makes   *)
(* the quorum calls acceptTransfer of the bridge in the same transaction,  *)
(* which reverts with it.                                                  *)
(*                                                                         *)
(* A correct federator votes only for events its node shows on the other   *)
(* chain.  The node of a misled federator may be on a fork or out of date  *)
(* and show any event.  Members do not change here (module Federation      *)
(* covers that).                                                           *)
(***************************************************************************)
EXTENDS Bridge, Sequences

CONSTANTS
    Federators,   \* the list of members of every federation
    Required,     \* votes the federations require
    Misled        \* the federators whose nodes may be wrong

Members == {Federators[i] : i \in DOMAIN Federators}

VARIABLES members, isMember, required, votes, processed, bridge, delivered

federationVars ==
    <<members, isMember, required, votes, processed, bridge, delivered>>

(* The id that contract v3 gave to a transfer: no chain ids. *)
LegacyIdOf(e) == [tok |-> e.tok, amount |-> e.amount, block |-> e.block,
                  tx |-> e.tx, log |-> e.log]

Fed == INSTANCE Federation
           WITH Addresses <- Members, MaxMembers <- Len(Federators),
                Txs <- Events, LegacyIds <- {LegacyIdOf(e) : e \in Events},
                LegacyOf <- LegacyIdOf, TokenTypes <- {"COIN"},
                Bridges <- Chains

(* initialize refuses a list with a duplicate. *)
ASSUME FederatorsDiffer == Federators \in Seq(Members) /\ IsInjective(Federators)

(* initialize refuses an empty list, and requirements nobody could meet. *)
ASSUME RequiredIsValid == Required \in 1..Len(Federators)

(* Enough federators are right that every majority holds one of them. *)
ASSUME MisledAreFew ==
    /\ Misled \subseteq Members
    /\ 2 * Cardinality(Misled) <= Cardinality(Members)

(* New contracts: a federation initialised with the list of federators, and *)
(* connected to the bridge of its chain.                                    *)
SystemInit ==
    /\ Init
    /\ members = [c \in Chains |-> Federators]
    /\ isMember = [c \in Chains |-> Members]
    /\ required = [c \in Chains |-> Required]
    /\ votes = [c \in Chains |-> [id \in Fed!Ids |-> {}]]
    /\ processed = [c \in Chains |-> {}]
    /\ bridge = [c \in Chains |-> [type \in {"COIN"} |-> c]]
    /\ delivered = [c \in Chains |-> [e \in Events |-> <<>>]]

(* A federator finds an event and calls voteTransaction on chain c. *)
Vote(c, m, e) ==
    /\ e.origin # c
    /\ m \in Misled \/ e \in AllEvents
    /\ Fed!VoteTransaction(c, m, e, "COIN", CanAccept(c, e))
    /\ IF processed'[c] = processed[c] THEN UNCHANGED bridgeVars
                                       ELSE AcceptTransfer(c, e)

(* What users and owners do on chain c, and the chain itself. *)
Operate(c) ==
    /\ \/ Cross(c)
       \/ Claim(c)
       \/ NewSideToken(c)
       \/ SetPaused(c)
       \/ SetKnownToken(c)
       \/ Reorganisation(c)
    /\ UNCHANGED federationVars

SystemNext ==
    \E c \in Chains :
        \/ \E m \in Members, e \in Events : Vote(c, m, e)
        \/ Operate(c)

SystemSpec == SystemInit /\ [][SystemNext]_<<bridgeVars, federationVars>>

-----------------------------------------------------------------------------
(* Properties *)

(* With a minority of misled federators the bridges behave as if their      *)
(* federations were ideal: whatever is accepted was logged by the other     *)
(* bridge, and every step is one of module Bridge.                          *)
ImplementsIdealBridge == Spec

(* The two contracts of a chain never disagree: a transfer is processed by  *)
(* the federation exactly when the bridge holds it as accepted.             *)
ProcessedIsAccepted ==
    \A c \in Chains, e \in Events :
        e \in processed[c] <=> accepted[c][e.tx] = e
=============================================================================
