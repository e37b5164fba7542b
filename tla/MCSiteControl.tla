---------------------------- MODULE MCSiteControl ----------------------------
(* Instances of SiteControl for TLC. *)
EXTENDS SiteControl

\* the accepted names of each critical key (state_engine.py:36-46)
MCAliases == [k \in Critical |->
    IF k = "pv_generation_kw" THEN <<"pv_generation_kw", "pv_kw", "pv_generation">> ELSE <<k>>]

\* surplus or deficit; below, between and above the thresholds of the charge,
\* the temperature and the reserve of the request
MCInput ==
    [pv : {0, 60}, load : {20}, soc : {12, 18, 50, 96}, temp : {30, 43, 45},
     cheap : {FALSE}, peak : BOOLEAN, reserve : {10, 20}, flagged : {FALSE}]
    \cup
    [pv : {0}, load : {0, 20}, soc : {50, 90}, temp : {42}, cheap : BOOLEAN, peak : BOOLEAN,
     reserve : {20}, flagged : BOOLEAN]
=============================================================================
