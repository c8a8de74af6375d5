---------------------------- MODULE MCAllowTokens ----------------------------
(* Constants of AllowTokens for TLC. *)
EXTENDS AllowTokens

Lim(min, max, daily, medium, large) ==
    [min |-> min, max |-> max, daily |-> daily,
     mediumAmount |-> medium, largeAmount |-> large]

(* Two valid limits, the second with a lower daily limit, and one that is   *)
(* refused.                                                                 *)
MCLimits == {Lim(1, 2, 3, 2, 3), Lim(1, 1, 1, 2, 4), Lim(2, 2, 2, 2, 3)}

Conf(s, m, l) == [small |-> s, medium |-> m, large |-> l]
MCConfirmations == {Conf(0, 0, 0), Conf(1, 2, 3), Conf(1, 3, 2), Conf(2, 1, 3)}

(* Infos the owner may write, both of a token whose day is spent and does   *)
(* not end: a fresh day each time would let the history grow for ever.      *)
MCInfos == {[allowed |-> TRUE, typeId |-> 0, spentToday |-> 3, lastDay |-> 8],
            [allowed |-> FALSE, typeId |-> 1, spentToday |-> 3, lastDay |-> 9]}
=============================================================================
