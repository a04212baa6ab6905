------------------------------ MODULE MCTimeout ------------------------------
(* The small instances of GatewayTimeout on which TLC runs. *)
EXTENDS GatewayTimeout

AllStatuses == {200, 404, 500, 504}

=============================================================================
