---------------------------- MODULE MCDhanReaders ----------------------------
(***************************************************************************)
(* Bodies over every key the code looks at; frames of few packets, whole   *)
(* or cut; orders over two periods and a gap; MCDhanProvider's files.      *)
(***************************************************************************)
EXTENDS DhanReaders, MCDhanProvider

CONSTANTS MaxItems,     \* longest array of a body
          MaxPackets,   \* most packets in a frame
          MaxFills      \* most fills of an order

\* Dicts over the keys the code looks at.
Values(key) ==
  CASE key = "errorMessage" -> {"ip", "words", ""}
    [] key = "errorCode"    -> {"DH-904", "DH-905"}
    [] key = "errorType"    -> {"Rate_Limit", "Input_Exception"}
    [] key = "status"       -> {"success", "SUCCESS", "failed"}
    [] key = "data"         -> {<<>>, [c \in {"813"} |-> "ip"],
                                [c \in {"813", "DH-904"} |-> "words"]}
    [] OTHER                -> {"words"}

RECURSIVE DictsOver(_)
DictsOver(keys) ==
  IF keys = {} THEN {<<>>}
  ELSE LET key == CHOOSE k \in keys : TRUE
           without == DictsOver(keys \ {key})
       IN without \cup {[k \in DOMAIN d \cup {key} |->
                           IF k = key THEN v ELSE d[k]] :
                        d \in without, v \in Values(key)}

Dicts == DictsOver({"errorMessage", "errorCode", "errorType", "status",
                    "error", "path", "data", "orderId"})

Elements == {Object(d) : d \in DictsOver({"errorMessage", "status", "orderId"})}
              \cup {Scalar}

Arrays == UNION {[1..n -> Elements] : n \in 0..MaxItems}

MCResponses == {HttpError, Text, Json(Scalar)}
               \cup {Json(Object(d)) : d \in Dicts}
               \cup {Json(Array(a)) : a \in Arrays}

-------------------------------------------------------------------------------
\* Frames of each socket, whole or cut: packets whose length counts the header,
\* or not, or is wrong; packets of codes with no size, one of them no longer
\* than its header.

Packet(code, size, declared) == [code |-> code, size |-> size, declared |-> declared]

FeedPackets == {Packet(2, 16, 16), Packet(2, 16, 8), Packet(2, 16, 99),
                Packet(50, 10, 10), Packet(8, 162, 162), Packet(3, 112, 112),
                Packet(3, 112, 104), Packet(7, 8, 8)}
DepthPackets == {Packet(41, 332, 332), Packet(51, 332, 320), Packet(60, 40, 40),
                 Packet(60, 40, 28)}
Noise == {[code |-> 2, declared |-> 16], [code |-> 41, declared |-> 332],
          [code |-> 99, declared |-> 13], [code |-> 99, declared |-> 0]}

FramesOf(socket, pool) ==
  {[socket |-> socket,
    frame |-> [packets |-> p, size |-> IF cut > Written(p) THEN 0 ELSE Written(p) - cut,
               noise |-> noise]] :
     p \in UNION {[1 .. n -> pool] : n \in 1 .. MaxPackets},
     cut \in {0, 3, 9}, noise \in Noise}

MCFrames == FramesOf(MarketFeed, FeedPackets) \cup FramesOf(Depth20, DepthPackets)

\* Orders, and a table in which the first of two periods counts, with a gap.
MCPeriods ==
  LET period(from, to, stt, exchange, brokerage) ==
        [from |-> from, to |-> to, sttSell |-> stt, stampBuy |-> 1, exchange |-> exchange,
         sebi |-> 1, gst |-> 18, brokerage |-> brokerage]
  IN <<period(1, 1, 10, 5, 20), period(1, 2, 15, 4, 10)>>

MCOrders == {[side |-> side, fills |-> fills, multiplier |-> multiplier] :
               side \in {"BUY", "SELL"}, multiplier \in {1, 65},
               fills \in UNION {[1 .. n -> [day : 1 .. 3, price : {1, 3}, lots : 1 .. 2]] :
                                   n \in 1 .. MaxFills}}
===============================================================================
