----------------------------- MODULE MCClients ------------------------------
(***************************************************************************)
(* The parts that stand by themselves, for TLC: the managers of the 300mm  *)
(* extensions (MCMaterial), the security event sinks, the rate limiter,    *)
(* the Modbus client and the SECS-II codec.  They share nothing, so a      *)
(* behaviour exercises one of them.                                        *)
(***************************************************************************)
EXTENDS MCMaterial, SecuritySinks, RateLimiter, ModbusClient, Secs2Codec

VARIABLE part

partVars == <<vars, sinkVars, limiterVars, modbusVars, codecVars, part>>

\* Nine coils, and 34 whose quantity and byte count look like those of two.
MCCoilLists == {<<TRUE, FALSE, FALSE, FALSE, FALSE, FALSE, TRUE, FALSE, TRUE>>,
                [i \in 1..34 |-> i % 3 = 0]}

\* 2^24 bytes, one more than three length bytes can say.
TooLong == FoldLeft(LAMBDA s, i : s \o s, <<65>>, [i \in 1..24 |-> i])

\* One item of each format, with values at the ends of their ranges, a string
\* whose length needs two bytes, empty items, nested lists, and a list with a
\* string that is too long.
MCItems ==
    << New("A", <<[i \in 1..256 |-> 65]>>), New("A", <<<<>>>>), New("B", <<<<0, 255>>>>),
       New("BOOLEAN_", <<TRUE, FALSE>>), New("I1", <<-128, -1, 127>>),
       New("I2", <<-32768, 300>>), New("U1", <<255>>), New("U2", <<65535>>),
       New("I4", <<<<-32768, 0>>, <<-1, 65534>>, <<32767, 65535>>>>), New("U4", <<>>),
       New("U4", <<<<65535, 1>>>>), New("F4", <<<<16256, 0>>, <<32768, 0>>>>),
       New("I8", <<<<-32768, 0, 0, 1>>>>), New("U8", <<<<65280, 0, 255, 1>>>>),
       New("F8", <<<<49136, 0, 0, 0>>>>), New("L", <<>>),
       New("L", <<New("L", <<New("U1", <<1>>)>>), New("A", <<<<77>>>>)>>),
       New("L", <<New("U1", <<2>>), New("A", <<TooLong>>)>>) >>

PartInit ==
    /\ part \in {"material", "sinks", "limiter", "modbus", "codec"}
    /\ MCInit /\ SinkInit /\ LimiterInit /\ ModbusInit /\ CodecInit
    /\ part # "material" => focus = "carriers"

PartNext ==
    /\ \/ /\ part = "material" /\ MCNext
          /\ UNCHANGED <<sinkVars, limiterVars, modbusVars, codecVars>>
       \/ /\ part = "sinks" /\ SinkNext
          /\ UNCHANGED <<vars, limiterVars, modbusVars, codecVars>>
       \/ /\ part = "limiter" /\ LimiterNext
          /\ UNCHANGED <<vars, sinkVars, modbusVars, codecVars>>
       \/ /\ part = "modbus" /\ ModbusNext
          /\ UNCHANGED <<vars, sinkVars, limiterVars, codecVars>>
       \/ /\ part = "codec" /\ CodecNext
          /\ UNCHANGED <<vars, sinkVars, limiterVars, modbusVars>>
    /\ UNCHANGED part

\* Timers fire, flush gets its mutex, and a request to the webhook ends, by
\* its own timeout at the latest.
PartSpec ==
    /\ PartInit /\ [][PartNext]_partVars
    /\ \A t \in Timer : WF_sinkVars(TimerFires(t)) /\ WF_sinkVars(Flush(t))
    /\ WF_sinkVars(\E s \in sending, answer \in Answer : Post(s, answer))
=============================================================================
