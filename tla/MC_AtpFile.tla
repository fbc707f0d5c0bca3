------------------------------ MODULE MC_AtpFile ------------------------------
(* Forms for TLC.  Every field not chosen below holds a fixed value of a   *)
(* GUI form: 1920x1080 at 60 FPS, 64-byte packets, and address parameters  *)
(* that differ from field to field and from group to group, so that a      *)
(* value read into the wrong widget, or cut at the wrong offset, shows.    *)
EXTENDS AtpFile

MCScalars ==
    <<"gpu", "x">> :> 1920 @@ <<"gpu", "y">> :> 1080 @@ <<"gpu", "fps">> :> 60
    @@ <<"gpu", "bpp">> :> 4 @@ <<"gpu", "frames">> :> 1 @@ <<"gpu", "size">> :> 64
    @@ <<"gpu", "total_txn">> :> 32400 @@ <<"gpu", "ot">> :> 8
    @@ <<"dpu", "x">> :> 1280 @@ <<"dpu", "y">> :> 720 @@ <<"dpu", "fps">> :> 30
    @@ <<"dpu", "bpp">> :> 24 @@ <<"dpu", "layers">> :> 2 @@ <<"dpu", "size">> :> 128
    @@ <<"dpu", "total_txn">> :> 21600 @@ <<"dpu", "timing">> :> 1000
    @@ <<"cpu", "point_chase_percentage">> :> 50 @@ <<"cpu", "data_limit">> :> 1280
    @@ <<"cpu", "data_size">> :> 64 @@ <<"cpu", "pc_ot_limit">> :> 4
    @@ <<"cpu", "mc_ot_limit">> :> 16 @@ <<"cpu", "mc_fifo_full_level">> :> 512
    @@ <<"cpu", "mc_bandwidth">> :> 12000

MCParamBase ==
    [address_base |-> 4096, address_incr |-> 640, address_min |-> 2000,
     address_max |-> 9000, address_std_dv |-> 300, address_mean |-> 5000,
     address_shape |-> 70, address_scale |-> 810]

MCGroupIndex ==
    [gpu_read |-> 1, gpu_write |-> 2, dpu |-> 3, cpu_pc_read |-> 4,
     cpu_pc_write |-> 5, cpu_mc_read |-> 6, cpu_mc_write |-> 7]

MCPreset ==
    [f \in Fields |->
        CASE f \in DOMAIN MCScalars -> MCScalars[f]
          [] IsText(f) -> "LINEAR"
          [] OTHER -> MCParamBase[f[2]] + MCGroupIndex[f[1]]]

MCAuthors == {"Riken Gohil"}

\* every addressing type, for reads and for writes
MCGpuChoices ==
    {<<"LINEAR", "UNIFORM">>, <<"UNIFORM", "NORMAL">>, <<"NORMAL", "POISSON">>,
     <<"POISSON", "WEIBULL">>, <<"WEIBULL", "LINEAR">>}

MCDpuChoices ==
    {<<"LINEAR", 500>>, <<"UNIFORM", 1250>>, <<"NORMAL", 1000>>,
     <<"POISSON", 500>>, <<"WEIBULL", 1250>>}

\* pointer chase only, memory copy only, and both; bandwidths in B/s, KB/s
\* and MB/s, each printed exactly; a data limit of 20 packets
MCCpuChoices ==
    {<<"LINEAR", 0, 1280, 999>>, <<"UNIFORM", 100, 1280, 999>>,
     <<"LINEAR", 25, 1280, 12000>>, <<"NORMAL", 0, 1280, 2000000>>,
     <<"NORMAL", 75, 1280, 2000000>>, <<"WEIBULL", 25, 1280, 12000>>}

\* CPU forms as a user fills them in: a data limit that is not a multiple of
\* the packet size, bandwidths with a fraction in KB/s, NORMAL addresses
MCCpuFormChoices ==
    {<<"LINEAR", 50, 1000, 12000>>, <<"LINEAR", 50, 1280, 1500>>,
     <<"LINEAR", 50, 1280, 1250>>, <<"NORMAL", 50, 1280, 12000>>}
====
