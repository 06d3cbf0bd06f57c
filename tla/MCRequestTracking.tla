--------------------------- MODULE MCRequestTracking ---------------------------
(* Model of RequestTracking: the requests of a controller to one worker.       *)
EXTENDS RequestTracking

===============================================================================
