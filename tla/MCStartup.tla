------------------------------ MODULE MCStartup ------------------------------
(* Startup with three languages and two taps besides the two loads of the    *)
(* start.                                                                    *)
EXTENDS Startup
=============================================================================
