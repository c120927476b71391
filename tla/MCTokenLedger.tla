---------------------------- MODULE MCTokenLedger ----------------------------
(* Model-checking instances of TokenLedger: the daemon with a              *)
(* generate-bootstrap-token command beside it, and the daemon with its own *)
(* minting tool.                                                           *)
EXTENDS TokenLedger

CONSTANTS Cli, Mint

WithCli  == {{Daemon}, {Cli}}
WithMint == {{Daemon, Mint}}
=============================================================================
