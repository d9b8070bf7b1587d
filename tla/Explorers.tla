----------------------------- MODULE Explorers -----------------------------
(***************************************************************************)
(* How get_abi of the two explorers reads a reply                          *)
(* (explorers/etherscan.py, explorers/blockscout.py).  A reply is what     *)
(* became of the request; of a JSON body only its shape matters.           *)
(***************************************************************************)

Explorer == {"etherscan", "blockscout"}
Failure == {"notfound", "error", "limited"}

\* The result field: falsy; text that is not JSON, JSON text of a list of objects or of
\* something else; a list of objects or of something else; any other value.
Result == {"nothing", "text", "abiText", "oddText", "objects", "oddList", "other"}

\* The ABI field of the first object of a result.
Field == {"missing", "text", "abiText", "oddText"}

Reply ==
    [http : {"unreachable", "status429", "failed"}]
        \union [http : {"ok"}, body : {"notJson", "notObject"}]
        \union [http : {"ok"}, body : {"status0"}, mentionsLimit : BOOLEAN]
        \union [http : {"ok"}, body : {"status1"}, result : Result, field : Field]

\* etherscan.py 82-96: the ABI is text in the first of the result's objects.
EtherscanReads(reply) ==
    CASE reply.result \notin {"objects", "oddList"} -> "notfound"
      [] reply.result = "oddList"                   -> "error"
      [] reply.result = "objects"                   ->
             IF reply.field = "abiText" THEN "found" ELSE "error"

\* blockscout.py 69-83: the result is the ABI, as text or as a list.
BlockscoutReads(reply) ==
    CASE reply.result = "nothing"                         -> "notfound"
      [] reply.result \in {"abiText", "objects"}          -> "found"
      [] reply.result \notin {"nothing", "abiText", "objects"} -> "error"

\* Status "0" is a rate limit when the message says so, and "not found" otherwise.
Refusal(reply) == IF reply.mentionsLimit THEN "limited" ELSE "notfound"

\* How the call ends: with an ABI, an explorer's failure, or ("crash") an exception no
\* caller expects, of .get() on a body that is no object.
Reads(explorer, reply) ==
    CASE reply.http = "status429"                  -> "limited"
      [] reply.http \in {"unreachable", "failed"}  -> "error"
      [] reply.http = "ok"                         ->
             CASE reply.body = "notJson"   -> "error"
               [] reply.body = "notObject" -> "crash"
               [] reply.body = "status0"   -> Refusal(reply)
               [] reply.body = "status1"   ->
                      IF explorer = "etherscan" THEN EtherscanReads(reply)
                                                ELSE BlockscoutReads(reply)

\* What a call may end with, of whichever explorers have an API key.
Answers == {Reads(explorer, reply) : explorer \in Explorer, reply \in Reply}
=============================================================================
