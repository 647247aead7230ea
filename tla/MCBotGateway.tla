----------------------------- MODULE MCBotGateway -----------------------------
(* BotGateway for TLC: one admin client, one worker, one update that comes   *)
(* again and again; the bot is started at most twice.                       *)
EXTENDS BotGateway

CONSTANTS u1, r1

=============================================================================
