---------------------------- MODULE MCGatewayBoot ----------------------------
(* One gateway.                                                              *)
EXTENDS GatewayBoot

=============================================================================
