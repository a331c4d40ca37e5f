------------------------------ MODULE MCDashboard ------------------------------
(* Dashboard for TLC: a chart that every update has. *)
EXTENDS Dashboard

SomeCharts == {<<"a">>}
================================================================================
