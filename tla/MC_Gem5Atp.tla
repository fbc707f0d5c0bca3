------------------------------ MODULE MC_Gem5Atp ------------------------------
(***************************************************************************)
(* Command lines for gem5/atp.py: a memory type of each controller class   *)
(* and an unknown one, valid and invalid address maps, the default and a   *)
(* given run time, --streams arguments of every documented form over two   *)
(* addresses and a task id, malformed ones, and undocumented ones the     *)
(* parser accepts.                                                         *)
(***************************************************************************)
EXTENDS Gem5Atp

\* The mem types whose controllers are a DRAMCtrl, a QoSMemSinkCtrl, neither
MCMemKinds ==
    ("LPDDR3_1600_1x32" :> "DRAMCtrl") @@ ("QoS_MemSink" :> "QoSMemSinkCtrl")
        @@ ("SimpleMemory" :> "Other")

MCAddrValue == ("0x0" :> 0) @@ ("4KB" :> 4096)

MCConfigPaths == {<<>>, <<"configs">>}

MCWalk == "configs" :> {"configs/a.atp", "configs/c.atp"}

RECURSIVE Join(_)
Join(fs) == IF Len(fs) = 1 THEN fs[1] ELSE fs[1] \o "," \o Join(Tail(fs))

MCGroup(letter) == {<<>>} \cup {<<letter, b, r>> : b, r \in {"0x0", "4KB"}}

\* Every form of the --streams help
MCDocumented ==
    {Join(<<"s", "m">> \o r \o w \o t) :
        r \in MCGroup("R"), w \in MCGroup("W"), t \in {<<>>, <<"7">>}}

\* One field, a letter where the task id goes, a group cut short, a second
\* group with one value, a value no address, a task id no integer
MCMalformed ==
    {"s", "s,m,R", "s,m,R,0x0", "s,m,R,0x0,4KB,W,0x0", "s,m,W,zz,4KB",
     "s,m,R,0x0,4KB,x"}

\* Arguments of no documented form that the parser accepts: a lower-case
\* letter, groups in W,R order, and an unknown second letter.
MCUndocumented ==
    {"s,m,r,0x0,4KB", "s,m,W,0x0,4KB,R,0x0,4KB", "s,m,R,0x0,4KB,X,0x0,4KB"}

MCStreamLists ==
    {<<>>} \cup {<<a>> : a \in MCDocumented \cup MCMalformed \cup MCUndocumented}
        \cup {<<"s,m,7", "t,n,W,4KB,0x0">>, <<"s,m,R,0x0,4KB", "s,m,R">>}

=============================================================================
