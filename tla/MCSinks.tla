------------------------------- MODULE MCSinks -------------------------------
EXTENDS SinksProperties

(* Two texts, two lengths, a message without module.                         *)
MCMessages == {[text |-> "x", level |-> 1, module |-> "net"],
               [text |-> "y", level |-> 2, module |-> NoModule]}
MCSize == <<1, 2>>

ModuleF(set) == [kind |-> "module", set |-> set]
Exclude(set) == [kind |-> "exclude", set |-> set]
LevelIn(lo, hi) == [kind |-> "range", min_level |-> lo, max_level |-> hi]
Op(op, set) == [op |-> op, of |-> set]
Opposites == {<<Op("and", {ModuleF({"net"})}), Op("or", {Exclude({"net"})})>>,
              <<Op("or", {ModuleF({"net"}), LevelIn(2, 2)}), Op("not or", {ModuleF({"net"}), LevelIn(2, 2)})>>}

MCChains == {<<>>, <<"dedup", "rate_limit">>}

(* The updater touches nothing that sinks use: its steps may as well come    *)
(* before or after them.                                                     *)
SinksAlone == pc = "sinks" => UNCHANGED updater
=============================================================================
