---------------------------- MODULE Identifiers ----------------------------
(***************************************************************************)
(* The calls made to a gateway.  Each call mints its identifiers from a    *)
(* fresh UUID (newId, src/pipeline/decide.ts:75), so the decision, the     *)
(* receipt and the policy load that a call creates are named by the call.  *)
(***************************************************************************)
CONSTANTS Requests,     \* the calls made to the gateway
          None          \* undefined / null

ASSUME NoneIsNoRequest == None \notin Requests

=============================================================================
