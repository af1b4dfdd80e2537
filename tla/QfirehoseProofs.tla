-------------------------- MODULE QfirehoseProofs --------------------------
(***************************************************************************)
(* Proofs about Qfirehose for every programmer, every firmware package,    *)
(* every payload and every number of calls: the Sahara protocol stays in   *)
(* step and loads a whole programmer, the Firehose protocol stays in lock  *)
(* step and sends exactly what it announced, the program commands of a     *)
(* sparse image are its pieces, success means that every image is in       *)
(* flash, and on NAND a module that boots has a whole image, old or new.   *)
(***************************************************************************)
EXTENDS Qfirehose, WellFoundedInduction, FiniteSetTheorems, SequenceTheorems, TLAPS

(* Sahara.                                                                 *)

PacketNames == S!Cmds \cup {"byte", "hello_response", "data", "done", "reset"}
Packet == [cmd : PacketNames, a : Nat, b : Nat]

Byte == S!Pkt("byte", 0, 0)
Greeting == S!Pkt("hello_response", 0, 0)
Done == S!Pkt("done", 0, 0)

SaharaTypes ==
  /\ spc \in {"hello", "nudged", "loop", "finish", "ok", "fail", "over"}
  /\ sdev \in {"mute", "late", "hello", "ask", "loaded", "left"}
  /\ toHost \in Seq(Packet) /\ toDev \in Seq(Packet)
  /\ loaded \in Seq(Nat) /\ want \in Nat /\ file \in Nat

\* What is under way to the module is what it expects there.
ToModule ==
  /\ sdev \in {"mute", "late"} => toDev \in {<<>>, <<Byte>>}
  /\ sdev = "hello" => toDev \in {<<>>, <<Byte>>, <<Greeting>>, <<Byte, Greeting>>}
  /\ sdev = "ask" => \/ toDev = <<>>
                     \/ /\ want = 0 /\ toDev = <<Done>>
                        /\ toHost = <<>> /\ spc \in {"finish", "fail"}
                     \/ want > 0 /\ \E n \in 0 .. want :
                                      toDev = <<S!Pkt("data", Len(loaded), n)>>
  /\ sdev = "loaded" => toDev = <<>>

\* The request a module that waits has sent last.
Asked(p, have, need) ==
  IF need > 0 THEN p = S!Pkt("read", have, need) ELSE p.cmd = "end"
Request(p) == Asked(p, Len(loaded), want)

\* What is under way to the tool: hellos it need not answer, and behind them the
\* one request that is still to be answered.
ToTool ==
  /\ sdev \in {"mute", "late"} => toHost = <<>>
  /\ sdev = "hello" => \A i \in 1 .. Len(toHost) : toHost[i].cmd = "hello"
  /\ sdev = "ask" => \A i \in 1 .. Len(toHost) :
                       \/ toHost[i].cmd = "hello"
                       \/ i = Len(toHost) /\ toDev = <<>> /\ Request(toHost[i])
  /\ sdev = "loaded" => \A i \in 1 .. Len(toHost) : toHost[i].cmd = "done_response"
  /\ sdev = "left" => \A i \in 1 .. Len(toHost) : toHost[i].cmd \in {"other", "noise"}

\* Where the two ends can be at the same time.
Together ==
  /\ spc \in {"hello", "nudged"} => sdev \in {"mute", "late", "hello", "left"}
  /\ spc = "hello" => toDev = <<>>
  /\ spc = "nudged" /\ sdev # "left" => toDev \in {<<>>, <<Byte>>}
  /\ spc = "loop" => /\ sdev \in {"hello", "ask", "left"}
                     /\ sdev = "hello" => toDev \in {<<Greeting>>, <<Byte, Greeting>>}
  /\ spc = "finish" => \/ sdev = "ask" /\ want = 0 /\ toHost = <<>>
                       \/ sdev = "loaded"
  /\ spc = "ok" => sdev = "loaded"

\* What the module has received, and what it still needs.
Received ==
  /\ sdev \in {"mute", "late", "hello"} => loaded = <<>> /\ want = 0
  /\ \A i \in 1 .. Len(loaded) : loaded[i] = i
  /\ Len(loaded) + want <= ImageSize
  /\ sdev \in {"ask", "loaded"} /\ want = 0 => Len(loaded) = ImageSize
  /\ sdev = "loaded" => want = 0

SaharaInv == SaharaTypes /\ ToModule /\ ToTool /\ Together /\ Received

-----------------------------------------------------------------------------

\* Short queues.
LEMMA Shorts ==
  ASSUME NEW a, NEW b
  PROVE  /\ Tail(<<a>>) = <<>> /\ Head(<<a>>) = a /\ Len(<<a>>) = 1 /\ <<a>> # <<>>
         /\ Tail(<<a, b>>) = <<b>> /\ Head(<<a, b>>) = a /\ <<a, b>> # <<>>
         /\ Append(<<>>, a) = <<a>> /\ Append(<<a>>, b) = <<a, b>>
         /\ Len(<<>>) = 0
<1>1. Tail(<<a>>) = <<>> /\ Head(<<a>>) = a /\ Len(<<a>>) = 1 /\ <<a>> # <<>>
  OBVIOUS
<1>2. Tail(<<a, b>>) = <<b>>
  OBVIOUS
<1>3. Head(<<a, b>>) = a /\ <<a, b>> # <<>>
  OBVIOUS
<1>4. Append(<<>>, a) = <<a>>
  OBVIOUS
<1>5. Append(<<a>>, b) = <<a, b>>
  <2>1. Append(<<a>>, b) \in Seq({a, b}) /\ <<a, b>> \in Seq({a, b})
    OBVIOUS
  <2>2. Len(Append(<<a>>, b)) = 2 /\ Append(<<a>>, b)[1] = a /\ Append(<<a>>, b)[2] = b
    OBVIOUS
  <2>3. Len(<<a, b>>) = 2 /\ <<a, b>>[1] = a /\ <<a, b>>[2] = b
    OBVIOUS
  <2>4. \A i \in 1 .. 2 : Append(<<a>>, b)[i] = <<a, b>>[i]
    BY <2>2, <2>3
  <2>5. QED
    BY <2>1, <2>2, <2>3, <2>4, SeqEqual
<1>6. QED
  BY <1>1, <1>2, <1>3, <1>4, <1>5

\* What a packet is made of.
LEMMA Packets ==
  /\ \A c \in PacketNames, x, y \in Nat :
       /\ S!Pkt(c, x, y) \in Packet
       /\ S!Pkt(c, x, y).cmd = c /\ S!Pkt(c, x, y).a = x /\ S!Pkt(c, x, y).b = y
  /\ Byte \in Packet /\ Byte.cmd = "byte"
  /\ Greeting \in Packet /\ Greeting.cmd = "hello_response"
  /\ Done \in Packet /\ Done.cmd = "done"
<1>1. ASSUME NEW c \in PacketNames, NEW x \in Nat, NEW y \in Nat
      PROVE  /\ S!Pkt(c, x, y) \in Packet
             /\ S!Pkt(c, x, y).cmd = c /\ S!Pkt(c, x, y).a = x /\ S!Pkt(c, x, y).b = y
  BY DEF S!Pkt, Packet
<1>2. /\ Byte \in Packet /\ Byte.cmd = "byte"
      /\ Greeting \in Packet /\ Greeting.cmd = "hello_response"
      /\ Done \in Packet /\ Done.cmd = "done"
  BY DEF Byte, Greeting, Done, S!Pkt, Packet, PacketNames
<1>3. QED
  BY <1>1, <1>2

\* Reading a packet of a queue.
LEMMA Reading ==
  ASSUME NEW q \in Seq(Packet), q # <<>>
  PROVE  /\ Head(q) \in Packet /\ Head(q) = q[1] /\ Len(q) \in Nat /\ 1 \in 1 .. Len(q)
         /\ Tail(q) \in Seq(Packet) /\ Len(Tail(q)) = Len(q) - 1
         /\ \A i \in 1 .. Len(Tail(q)) : i + 1 \in 1 .. Len(q) /\ Tail(q)[i] = q[i + 1]
OBVIOUS

\* Sending one.
LEMMA Sending ==
  ASSUME NEW q \in Seq(Packet), NEW p \in Packet
  PROVE  /\ Append(q, p) \in Seq(Packet) /\ Len(Append(q, p)) = Len(q) + 1
         /\ Append(q, p) # <<>> /\ Len(q) \in Nat
         /\ \A i \in 1 .. Len(Append(q, p)) :
              IF i = Len(Append(q, p)) THEN Append(q, p)[i] = p
              ELSE i \in 1 .. Len(q) /\ Append(q, p)[i] = q[i]
OBVIOUS

\* sahara_rx_data finds nothing: the tool sends its one byte, or gives up.
LEMMA SilenceStep ==
  ASSUME SaharaInv, S!Silence
  PROVE  SaharaInv'
<1>1. UNCHANGED <<sdev, loaded, want, id, file>> /\ spc \in {"hello", "nudged", "loop", "finish"}
  BY DEF S!Silence
<1>2. toHost' \in Seq(Packet)
      /\ \/ toHost' = toHost /\ toHost = <<>>
         \/ /\ toHost # <<>> /\ Head(toHost).cmd = "noise" /\ toHost' = Tail(toHost)
            /\ sdev = "left"
  <2>1. CASE toHost = <<>>
    BY <2>1 DEF S!Silence, S!Nothing, SaharaInv, SaharaTypes
  <2>2. CASE toHost # <<>>
    <3>1. Head(toHost).cmd = "noise" /\ toHost' = Tail(toHost)
      BY <2>2 DEF S!Silence, S!Nothing
    <3>2. toHost[1].cmd = "noise" /\ 1 \in 1 .. Len(toHost) /\ Tail(toHost) \in Seq(Packet)
      BY <2>2, <3>1, Reading DEF SaharaInv, SaharaTypes
    <3>3. sdev = "left"
      <4>1. want > 0 => S!Pkt("read", Len(loaded), want).cmd = "read"
        BY DEF S!Pkt
      <4>2. QED
        BY <2>2, <3>2, <4>1 DEF SaharaInv, SaharaTypes, ToTool, Request, Asked
    <3>4. QED
      BY <2>2, <3>1, <3>2, <3>3
  <2>3. QED
    BY <2>1, <2>2
<1>3. \/ spc = "hello" /\ spc' = "nudged" /\ toDev = <<>> /\ toDev' \in {<<>>, <<Byte>>}
      \/ spc' = "fail" /\ toDev' = toDev
  BY Shorts DEF S!Silence, S!TryToTell, S!Tell, SaharaInv, Together, Byte
<1>4. toDev' \in Seq(Packet)
  <2>1. <<>> \in Seq(Packet) /\ <<Byte>> \in Seq(Packet)
    BY Packets
  <2>2. QED
    BY <1>3, <2>1 DEF SaharaInv, SaharaTypes
<1>5. SaharaTypes'
  BY <1>1, <1>2, <1>3, <1>4 DEF SaharaInv, SaharaTypes
<1>6. ToModule'
  <2>1. CASE spc = "hello"
    BY <1>1, <1>3, <2>1 DEF SaharaInv, ToModule, Together
  <2>2. CASE spc' = "fail" /\ toDev' = toDev
    BY <1>1, <1>2, <2>2 DEF SaharaInv, ToModule
  <2>3. QED
    BY <1>3, <2>1, <2>2
<1>7. ToTool'
  <2>1. CASE toHost' = toHost /\ toHost = <<>>
    BY <1>1, <2>1 DEF ToTool, Request, Asked
  <2>2. CASE toHost # <<>> /\ toHost' = Tail(toHost) /\ sdev = "left"
    BY <1>1, <2>2, Reading DEF SaharaInv, SaharaTypes, ToTool
  <2>3. QED
    BY <1>2, <2>1, <2>2
<1>8. Together'
  BY <1>1, <1>3 DEF SaharaInv, Together
<1>9. Received'
  BY <1>1 DEF SaharaInv, Received
<1>10. QED
  BY <1>5, <1>6, <1>7, <1>8, <1>9 DEF SaharaInv

\* start_image_transfer sends at most what was asked for, from where it was asked for.
LEMMA PiecesAsked ==
  ASSUME NEW x \in Nat, NEW y \in Nat, file \in Nat
  PROVE  \E n \in 0 .. y : S!Pieces(S!Pkt("read", x, y)) = S!Pkt("data", x, n)
<1>1. S!Pieces(S!Pkt("read", x, y)) =
        S!Pkt("data", x, IF x + y <= file THEN y ELSE IF x < file THEN file - x ELSE 0)
  BY DEF S!Pieces, S!Pkt
<1>2. (IF x + y <= file THEN y ELSE IF x < file THEN file - x ELSE 0) \in 0 .. y
  OBVIOUS
<1>3. QED
  BY <1>1, <1>2

\* The tool reads a packet.
LEMMA RxStep ==
  ASSUME SaharaInv, S!Rx
  PROVE  SaharaInv'
<1> DEFINE p == Head(toHost)
<1>1. /\ toHost # <<>> /\ p.cmd # "noise" /\ toHost' = Tail(toHost)
      /\ UNCHANGED <<sdev, loaded, want, id, file>>
  BY DEF S!Rx
<1>2. /\ p \in Packet /\ p = toHost[1] /\ 1 \in 1 .. Len(toHost) /\ Len(toHost) \in Nat
      /\ Tail(toHost) \in Seq(Packet) /\ Len(Tail(toHost)) = Len(toHost) - 1
      /\ \A i \in 1 .. Len(Tail(toHost)) :
           i + 1 \in 1 .. Len(toHost) /\ Tail(toHost)[i] = toHost[i + 1]
  BY <1>1, Reading DEF SaharaInv, SaharaTypes
<1>3. Received'
  BY <1>1 DEF SaharaInv, Received
<1> HIDE DEF p
<1>4. /\ sdev \notin {"mute", "late"}
      /\ sdev = "hello" => p.cmd = "hello"
      /\ sdev = "left" => p.cmd = "other"
      /\ sdev = "loaded" => p.cmd = "done_response"
      /\ sdev = "ask" => p.cmd = "hello" \/ (Len(toHost) = 1 /\ toDev = <<>> /\ Request(p))
  BY <1>1, <1>2 DEF SaharaInv, ToTool
<1>5. <<>> \in Seq(Packet)
  OBVIOUS
<1>6. ASSUME toDev' = toDev PROVE ToTool'
  <2>1. \A i \in 1 .. Len(Tail(toHost)) : i + 1 = Len(toHost) => i = Len(Tail(toHost))
    <3>1. \A m, n, i \in Int : m = n - 1 /\ i + 1 = n => i = m
      OBVIOUS
    <3>2. Len(toHost) \in Int /\ Len(Tail(toHost)) \in Int /\ Len(Tail(toHost)) = Len(toHost) - 1
      BY <1>2
    <3>3. QED
      BY <3>1, <3>2
  <2>2. \A i \in 1 .. Len(Tail(toHost)) :
          /\ Tail(toHost)[i] = toHost[i + 1] /\ i + 1 \in 1 .. Len(toHost)
          /\ i + 1 = Len(toHost) => i = Len(Tail(toHost))
    BY <1>2, <2>1
  <2>3. \A x : Request(x)' <=> Request(x)
    BY <1>1 DEF Request, Asked
  <2>4. QED
    BY <1>1, <1>4, <1>6, <2>2, <2>3 DEF SaharaInv, ToTool
<1>7. ASSUME toDev' \in Seq(Packet),
             spc' \in {"hello", "nudged", "loop", "finish", "ok", "fail", "over"}
      PROVE  SaharaTypes'
  BY <1>1, <1>2, <1>7 DEF SaharaInv, SaharaTypes
<1>8. ASSUME spc' = "fail", toDev' = toDev PROVE SaharaInv'
  <2>1. SaharaTypes' /\ ToTool'
    BY <1>6, <1>7, <1>8 DEF SaharaInv, SaharaTypes
  <2>2. ToModule' /\ Together'
    BY <1>1, <1>8 DEF SaharaInv, ToModule, Together
  <2>3. QED
    BY <1>3, <2>1, <2>2 DEF SaharaInv
<1>9. ASSUME sdev = "left", spc' = "fail", toDev' \in Seq(Packet) PROVE SaharaInv'
  <2>1. SaharaTypes'
    BY <1>7, <1>9
  <2>2. ToTool'
    BY <1>1, <1>2, <1>9 DEF SaharaInv, ToTool
  <2>3. ToModule' /\ Together'
    BY <1>1, <1>9 DEF ToModule, Together
  <2>4. QED
    BY <1>3, <2>1, <2>2, <2>3 DEF SaharaInv
<1>10. ASSUME S!TryToTell(S!Pkt("reset", 0, 0)) PROVE toDev' \in Seq(Packet)
  <2>1. S!Pkt("reset", 0, 0) \in Packet
    BY DEF S!Pkt, Packet, PacketNames
  <2>2. toDev' = toDev \/ toDev' = Append(toDev, S!Pkt("reset", 0, 0))
    BY <1>10 DEF S!TryToTell, S!Tell
  <2>3. QED
    BY <2>1, <2>2, Sending DEF SaharaInv, SaharaTypes
<1>11. CASE spc \in {"hello", "nudged"}
  <2>1. S!ReadHello(p) /\ sdev \in {"hello", "left"}
    BY <1>1, <1>4, <1>11 DEF S!Rx, SaharaInv, Together, p
  <2>2. CASE sdev = "left"
    <3>1. spc' = "fail" /\ S!TryToTell(S!Pkt("reset", 0, 0))
      BY <1>4, <2>1, <2>2 DEF S!ReadHello
    <3>2. QED
      BY <1>9, <1>10, <2>2, <3>1
  <2>3. CASE sdev = "hello" /\ spc' = "fail" /\ toDev' = toDev
    BY <1>8, <2>3
  <2>4. CASE sdev = "hello" /\ spc' = "loop" /\ toDev' = Append(toDev, Greeting)
    <3>1. toDev \in {<<>>, <<Byte>>}
      BY <1>11, <2>4 DEF SaharaInv, Together
    <3>2. toDev' \in {<<Greeting>>, <<Byte, Greeting>>}
      BY <2>4, <3>1, Shorts
    <3>3. toDev' \in Seq(Packet)
      BY <2>4, Sending, Packets DEF SaharaInv, SaharaTypes
    <3>4. SaharaTypes'
      BY <1>7, <2>4, <3>3
    <3>5. ToTool'
      BY <1>1, <1>2, <2>4 DEF SaharaInv, ToTool
    <3>6. ToModule' /\ Together'
      BY <1>1, <2>4, <3>2 DEF ToModule, Together
    <3>7. QED
      BY <1>3, <3>4, <3>5, <3>6 DEF SaharaInv
  <2>5. QED
    BY <1>4, <2>1, <2>2, <2>3, <2>4 DEF S!ReadHello, S!Tell, Greeting
<1>12. CASE spc = "loop"
  <2>1. S!ReadInLoop(p) /\ sdev \in {"hello", "ask", "left"}
    BY <1>1, <1>12 DEF S!Rx, SaharaInv, Together, p
  <2>2. CASE sdev = "left"
    <3>1. spc' = "fail" /\ S!TryToTell(S!Pkt("reset", 0, 0))
      BY <1>4, <2>1, <2>2 DEF S!ReadInLoop
    <3>2. QED
      BY <1>9, <1>10, <2>2, <3>1
  <2>3. CASE p.cmd = "hello"
    <3>1. spc' = "loop" /\ toDev' = toDev
      BY <2>1, <2>3 DEF S!ReadInLoop
    <3>2. SaharaTypes' /\ ToTool'
      BY <1>6, <1>7, <3>1 DEF SaharaInv, SaharaTypes
    <3>3. ToModule' /\ Together'
      BY <1>1, <1>12, <3>1 DEF SaharaInv, ToModule, Together
    <3>4. QED
      BY <1>3, <3>2, <3>3 DEF SaharaInv
  <2>4. CASE sdev = "ask" /\ p.cmd # "hello"
    <3>1. Len(toHost) = 1 /\ toDev = <<>> /\ Request(p)
      BY <1>4, <2>4
    <3>2. toHost' = <<>>
      BY <1>1, <1>2, <3>1
    <3>3. ToTool'
      BY <3>2 DEF ToTool
    <3>4. CASE want > 0
      <4>1. p = S!Pkt("read", Len(loaded), want)
        BY <3>1, <3>4 DEF Request, Asked
      <4>2. Len(loaded) \in Nat /\ want \in Nat /\ file \in Nat
        BY DEF SaharaInv, SaharaTypes
      <4>3. PICK n \in 0 .. want : S!Pieces(p) = S!Pkt("data", Len(loaded), n)
        BY <4>1, <4>2, PiecesAsked
      <4>4. p.cmd = "read"
        BY <4>1 DEF S!Pkt
      <4>5. spc' = "loop" /\ S!TryToTell(S!Pieces(p))
        BY <2>1, <4>4 DEF S!ReadInLoop
      <4>6. toDev' = <<>> \/ toDev' = <<S!Pkt("data", Len(loaded), n)>>
        BY <3>1, <4>3, <4>5, Shorts DEF S!TryToTell, S!Tell
      <4>7. toDev' \in Seq(Packet)
        <5>1. S!Pkt("data", Len(loaded), n) \in Packet
          BY <4>2, <4>3 DEF S!Pkt, Packet, PacketNames
        <5>2. <<S!Pkt("data", Len(loaded), n)>> \in Seq(Packet)
          BY <5>1
        <5>3. QED
          BY <1>5, <4>6, <5>2
      <4>8. SaharaTypes'
        BY <1>7, <4>5, <4>7
      <4>9. ToModule'
        BY <1>1, <2>4, <3>4, <4>6 DEF ToModule
      <4>10. Together'
        BY <1>1, <2>4, <4>5 DEF Together
      <4>11. QED
        BY <1>3, <3>3, <4>8, <4>9, <4>10 DEF SaharaInv
    <3>5. CASE ~(want > 0)
      <4>1. p.cmd = "end" /\ want = 0
        BY <3>1, <3>5 DEF Request, Asked, SaharaInv, SaharaTypes
      <4>2. CASE p.a # 0
        <5>1. spc' = "fail" /\ toDev' = toDev
          BY <2>1, <4>1, <4>2 DEF S!ReadInLoop
        <5>2. QED
          BY <1>8, <5>1
      <4>3. CASE p.a = 0
        <5>1. spc' = "finish" /\ S!TryToTell(Done)
          BY <2>1, <4>1, <4>3 DEF S!ReadInLoop, Done
        <5>2. toDev' = <<>> \/ toDev' = <<Done>>
          BY <3>1, <5>1, Shorts DEF S!TryToTell, S!Tell
        <5>3. toDev' \in Seq(Packet)
          <6>1. <<Done>> \in Seq(Packet)
            BY Packets
          <6>2. QED
            BY <1>5, <5>2, <6>1
        <5>4. SaharaTypes'
          BY <1>7, <5>1, <5>3
        <5>5. ToModule'
          BY <1>1, <2>4, <3>2, <4>1, <5>1, <5>2 DEF ToModule
        <5>6. Together'
          BY <1>1, <2>4, <3>2, <4>1, <5>1 DEF Together
        <5>7. QED
          BY <1>3, <3>3, <5>4, <5>5, <5>6 DEF SaharaInv
      <4>4. QED
        BY <4>2, <4>3
    <3>6. QED
      BY <3>4, <3>5
  <2>5. QED
    BY <1>4, <2>1, <2>2, <2>3, <2>4
<1>13. CASE spc = "finish"
  <2>1. sdev = "loaded"
    BY <1>1, <1>13 DEF SaharaInv, Together
  <2>2. S!ReadDone(p)
    BY <1>13 DEF S!Rx, p
  <2>3. spc' \in {"ok", "fail"} /\ toDev' = toDev
    BY <2>2 DEF S!ReadDone
  <2>4. SaharaTypes' /\ ToTool'
    BY <1>6, <1>7, <2>3 DEF SaharaInv, SaharaTypes
  <2>5. ToModule' /\ Together'
    BY <1>1, <2>1, <2>3 DEF SaharaInv, ToModule, Together
  <2>6. QED
    BY <1>3, <2>4, <2>5 DEF SaharaInv
<1>14. QED
  BY <1>11, <1>12, <1>13 DEF S!Rx

\* The hello that was late.
LEMMA LateHelloStep ==
  ASSUME SaharaInv, S!LateHello
  PROVE  SaharaInv'
<1>1. /\ sdev = "late" /\ sdev' = "hello" /\ UNCHANGED <<spc, toDev, loaded, want, id, file>>
      /\ toHost = <<>> /\ toHost' = <<S!Pkt("hello", 0, 0)>>
  BY Shorts DEF S!LateHello, S!Say, SaharaInv, ToTool
<1>2. S!Pkt("hello", 0, 0) \in Packet /\ S!Pkt("hello", 0, 0).cmd = "hello"
  BY DEF S!Pkt, Packet, PacketNames, S!Cmds
<1>3. SaharaTypes'
  <2>1. toHost' \in Seq(Packet)
    BY <1>1, <1>2
  <2>2. QED
    BY <1>1, <2>1 DEF SaharaInv, SaharaTypes
<1>4. ToTool'
  BY <1>1, <1>2 DEF ToTool
<1>5. ToModule' /\ Together' /\ Received'
  BY <1>1 DEF SaharaInv, ToModule, Together, Received
<1>6. QED
  BY <1>3, <1>4, <1>5 DEF SaharaInv

\* A module that turns out to be in another mode.
LEMMA StrangeStep ==
  ASSUME SaharaInv, S!Strange
  PROVE  SaharaInv'
<1>1. /\ sdev = "mute" \/ (sdev = "ask" /\ want > 0)
      /\ sdev' = "left" /\ UNCHANGED <<spc, toDev, loaded, want, id, file>>
      /\ toHost = <<>>
      /\ toHost' \in {<<S!Pkt("other", 0, 0)>>, <<S!Pkt("noise", 0, 0)>>}
  BY Shorts DEF S!Strange, S!Say
<1>2. /\ S!Pkt("other", 0, 0) \in Packet /\ S!Pkt("other", 0, 0).cmd = "other"
      /\ S!Pkt("noise", 0, 0) \in Packet /\ S!Pkt("noise", 0, 0).cmd = "noise"
  BY DEF S!Pkt, Packet, PacketNames, S!Cmds
<1>3. toHost' \in Seq(Packet) /\ \A i \in 1 .. Len(toHost') : toHost'[i].cmd \in {"other", "noise"}
  <2>1. CASE toHost' = <<S!Pkt("other", 0, 0)>>
    BY <1>2, <2>1
  <2>2. CASE toHost' = <<S!Pkt("noise", 0, 0)>>
    BY <1>2, <2>2
  <2>3. QED
    BY <1>1, <2>1, <2>2
<1>4. SaharaTypes'
  BY <1>1, <1>3 DEF SaharaInv, SaharaTypes
<1>5. ToTool' /\ ToModule' /\ Together' /\ Received'
  BY <1>1, <1>3 DEF SaharaInv, SaharaTypes, ToTool, ToModule, Together, Received
<1>6. QED
  BY <1>4, <1>5 DEF SaharaInv

\* The next request of the module, or the end of the image, when hellos at most are
\* under way to the tool and it has received the pieces up to here.
LEMMA AskOrEndStep ==
  ASSUME SaharaTypes, sdev \in {"hello", "ask"}, spc \in {"loop", "fail"},
         \A i \in 1 .. Len(toHost) : toHost[i].cmd = "hello",
         sdev' = "ask", toDev' = <<>>, UNCHANGED <<spc, id, file>>,
         loaded' \in Seq(Nat), \A i \in 1 .. Len(loaded') : loaded'[i] = i,
         Len(loaded') <= ImageSize, S!AskOrEnd(Len(loaded'))
  PROVE  SaharaInv'
<1>1. Len(loaded') \in Nat
  OBVIOUS
<1>2. \E p \in Packet : /\ toHost' = Append(toHost, p)
                        /\ want' \in Nat /\ Len(loaded') + want' <= ImageSize
                        /\ want' = 0 => Len(loaded') = ImageSize
                        /\ Asked(p, Len(loaded'), want')
  <2>1. CASE Len(loaded') < ImageSize
    <3>1. PICK n \in 1 .. MaxAsk : /\ Len(loaded') + n <= ImageSize /\ want' = n
                                   /\ S!Say(S!Pkt("read", Len(loaded'), n))
      BY <2>1 DEF S!AskOrEnd
    <3>2. n \in Nat /\ n > 0
      BY <3>1, SaharaAssumption
    <3>3. S!Pkt("read", Len(loaded'), n) \in Packet
      BY <1>1, <3>2 DEF S!Pkt, Packet, PacketNames, S!Cmds
    <3>4. Asked(S!Pkt("read", Len(loaded'), n), Len(loaded'), want')
      BY <3>1, <3>2 DEF Asked
    <3>5. QED
      BY <3>1, <3>2, <3>3, <3>4 DEF S!Say
  <2>2. CASE ~(Len(loaded') < ImageSize)
    <3>1. PICK status \in {0, 1} : want' = 0 /\ S!Say(S!Pkt("end", status, 0))
      BY <2>2 DEF S!AskOrEnd
    <3>2. S!Pkt("end", status, 0) \in Packet /\ S!Pkt("end", status, 0).cmd = "end"
      BY <3>1 DEF S!Pkt, Packet, PacketNames, S!Cmds
    <3>3. Asked(S!Pkt("end", status, 0), Len(loaded'), want')
      BY <3>1, <3>2 DEF Asked
    <3>4. Len(loaded') = ImageSize
      BY <1>1, <2>2, SaharaAssumption
    <3>5. QED
      BY <1>1, <3>1, <3>2, <3>3, <3>4 DEF S!Say
  <2>3. QED
    BY <2>1, <2>2
<1>3. PICK p \in Packet : /\ toHost' = Append(toHost, p)
                          /\ want' \in Nat /\ Len(loaded') + want' <= ImageSize
                          /\ want' = 0 => Len(loaded') = ImageSize
                          /\ Asked(p, Len(loaded'), want')
  BY <1>2
<1>4. /\ toHost' \in Seq(Packet)
      /\ \A i \in 1 .. Len(toHost') :
           \/ i = Len(toHost') /\ toHost'[i] = p
           \/ toHost'[i].cmd = "hello"
  <2>1. toHost \in Seq(Packet)
    BY DEF SaharaTypes
  <2>2. QED
    BY <1>3, <2>1, Sending
<1>5. SaharaTypes'
  <2>1. <<>> \in Seq(Packet)
    OBVIOUS
  <2>2. QED
    BY <1>3, <1>4, <2>1 DEF SaharaTypes
<1>6. ToModule'
  BY DEF ToModule
<1>7. ToTool'
  BY <1>3, <1>4 DEF ToTool, Request, Asked
<1>8. Together' /\ Received'
  BY <1>3 DEF Together, Received
<1>9. QED
  BY <1>5, <1>6, <1>7, <1>8 DEF SaharaInv

\* Pieces that follow on what was received continue it.
LEMMA PiecesFollow ==
  ASSUME NEW s \in Seq(Nat), \A i \in 1 .. Len(s) : s[i] = i, NEW n \in Nat
  PROVE  LET t == s \o [i \in 1 .. n |-> Len(s) + i]
         IN  /\ t \in Seq(Nat) /\ Len(t) = Len(s) + n
             /\ \A i \in 1 .. Len(t) : t[i] = i
<1> DEFINE u == [i \in 1 .. n |-> Len(s) + i]
<1>1. Len(s) \in Nat
  OBVIOUS
<1>2. u \in Seq(Nat) /\ Len(u) = n
  BY <1>1
<1>3. \A i \in 1 .. n : u[i] = Len(s) + i
  OBVIOUS
<1> HIDE DEF u
<1>4. /\ s \o u \in Seq(Nat) /\ Len(s \o u) = Len(s) + n
      /\ \A i \in 1 .. Len(s) + n : (s \o u)[i] = IF i <= Len(s) THEN s[i] ELSE u[i - Len(s)]
  BY <1>2, ConcatProperties
<1>5. ASSUME NEW i \in 1 .. Len(s) + n PROVE (s \o u)[i] = i
  <2>1. CASE i <= Len(s)
    BY <1>1, <1>4, <2>1
  <2>2. CASE ~(i <= Len(s))
    <3>1. i - Len(s) \in 1 .. n /\ Len(s) + (i - Len(s)) = i
      BY <1>1, <2>2
    <3>2. QED
      BY <1>3, <1>4, <2>2, <3>1
  <2>3. QED
    BY <2>1, <2>2
<1>6. QED
  BY <1>4, <1>5 DEF u

\* The module takes a packet or data.
LEMMA TakeStep ==
  ASSUME SaharaInv, spc # "over", S!Take
  PROVE  SaharaInv'
<1> DEFINE p == Head(toDev)
<1>1. /\ toDev # <<>> /\ sdev # "late" /\ toDev' = Tail(toDev) /\ UNCHANGED <<spc, id, file>>
      /\ Tail(toDev) \in Seq(Packet)
  BY Reading DEF S!Take, SaharaInv, SaharaTypes
<1>2. CASE sdev = "left"
  <2>1. UNCHANGED <<sdev, loaded, want, toHost>>
    BY <1>2 DEF S!Take
  <2>2. QED
    BY <1>1, <1>2, <2>1 DEF SaharaInv, SaharaTypes, ToModule, ToTool, Together, Received
<1>3. CASE sdev \in {"mute", "hello"} /\ p = Byte
  <2>1. p.cmd = "byte"
    BY <1>3, Packets
  <2>2. /\ sdev' = "hello" /\ toHost' = Append(toHost, S!Pkt("hello", 0, 0))
        /\ UNCHANGED <<loaded, want>>
    BY <1>3, <2>1 DEF S!Take, S!Say
  <2>3. S!Pkt("hello", 0, 0) \in Packet /\ S!Pkt("hello", 0, 0).cmd = "hello"
    BY DEF S!Pkt, Packet, PacketNames, S!Cmds
  <2>4. \A i \in 1 .. Len(toHost) : toHost[i].cmd = "hello"
    BY <1>3 DEF SaharaInv, ToTool
  <2>5. toHost' \in Seq(Packet) /\ \A i \in 1 .. Len(toHost') : toHost'[i].cmd = "hello"
    BY <2>2, <2>3, <2>4, Sending DEF SaharaInv, SaharaTypes
  <2>6. toDev \in {<<Byte>>, <<Byte, Greeting>>} /\ toDev' \in {<<>>, <<Greeting>>}
    <3>1. Byte # Greeting
      BY Packets
    <3>2. toDev # <<Greeting>>
      BY <1>3, <3>1, Shorts
    <3>3. toDev \in {<<Byte>>, <<Byte, Greeting>>}
      BY <1>1, <1>3, <3>2 DEF SaharaInv, ToModule
    <3>4. toDev = <<Byte>> => toDev' = <<>>
      BY <1>1, Shorts
    <3>5. toDev = <<Byte, Greeting>> => toDev' = <<Greeting>>
      BY <1>1, Shorts
    <3>6. QED
      BY <3>3, <3>4, <3>5
  <2>7. SaharaTypes'
    BY <1>1, <2>2, <2>5 DEF SaharaInv, SaharaTypes
  <2>8. ToModule' /\ ToTool'
    BY <2>2, <2>5, <2>6 DEF ToModule, ToTool
  <2>9. Together'
    <3>1. toDev = <<Byte>> => toDev' = <<>>
      BY <1>1, Shorts
    <3>2. toDev = <<Byte, Greeting>> => toDev' = <<Greeting>>
      BY <1>1, Shorts
    <3>3. <<Byte, Greeting>> # <<Byte>> /\ <<Byte, Greeting>> # <<>> /\ <<Byte>> # <<>>
          /\ <<Byte>> # <<Greeting>>
      <4>1. Byte # Greeting
        BY Packets
      <4>2. Head(<<Byte>>) = Byte /\ Head(<<Greeting>>) = Greeting /\ Len(<<Byte>>) = 1
        BY Shorts
      <4>3. Len(<<Byte, Greeting>>) = 2
        OBVIOUS
      <4>4. QED
        BY <4>1, <4>2, <4>3, Shorts
    <3>4. QED
      BY <1>1, <1>3, <2>2, <2>6, <3>1, <3>2, <3>3 DEF SaharaInv, Together
  <2>10. Received'
    BY <1>3, <2>2 DEF SaharaInv, Received
  <2>11. QED
    BY <2>7, <2>8, <2>9, <2>10 DEF SaharaInv
<1>4. CASE sdev = "hello" /\ p = Greeting
  <2>1. p.cmd = "hello_response"
    BY <1>4, Packets
  <2>2. sdev' = "ask" /\ S!AskOrEnd(0) /\ loaded' = loaded
    BY <1>4, <2>1 DEF S!Take
  <2>3. toDev = <<Greeting>>
    <3>1. Byte # Greeting
      BY Packets
    <3>2. toDev # <<Byte>> /\ toDev # <<Byte, Greeting>>
      BY <1>4, <3>1, Shorts
    <3>3. QED
      BY <1>1, <1>4, <3>2 DEF SaharaInv, ToModule
  <2>4. toDev' = <<>>
    BY <1>1, <2>3, Shorts
  <2>5. spc \in {"loop", "fail"}
    <3>1. <<Greeting>> # <<>> /\ <<Greeting>> # <<Byte>>
      <4>1. Byte # Greeting /\ Head(<<Byte>>) = Byte /\ Head(<<Greeting>>) = Greeting
        BY Packets, Shorts
      <4>2. QED
        BY <4>1, Shorts
    <3>2. QED
      BY <1>4, <2>3, <3>1 DEF SaharaInv, SaharaTypes, Together
  <2>6. loaded' = <<>> /\ Len(loaded') = 0 /\ loaded' \in Seq(Nat)
    BY <1>4, <2>2 DEF SaharaInv, Received
  <2>7. \A i \in 1 .. Len(toHost) : toHost[i].cmd = "hello"
    BY <1>4 DEF SaharaInv, ToTool
  <2>8. \A i \in 1 .. Len(loaded') : loaded'[i] = i
    BY <2>6
  <2>9. S!AskOrEnd(Len(loaded')) /\ Len(loaded') <= ImageSize
    BY <2>2, <2>6, SaharaAssumption
  <2>10. SaharaTypes
    BY DEF SaharaInv
  <2>11. QED
    BY <1>1, <1>4, <2>2, <2>4, <2>5, <2>6, <2>7, <2>8, <2>9, <2>10, AskOrEndStep
<1>5. CASE sdev = "ask" /\ want = 0 /\ toDev = <<Done>>
  <2>1. p.cmd = "done" /\ toDev' = <<>>
    BY <1>1, <1>5, Packets, Shorts
  <2>2. PICK status \in {0, 1, 2} : /\ sdev' = "loaded" /\ UNCHANGED <<loaded, want>>
                                    /\ toHost' = Append(toHost, S!Pkt("done_response", status, 0))
    BY <1>5, <2>1 DEF S!Take, S!Say
  <2>3. /\ S!Pkt("done_response", status, 0) \in Packet
        /\ S!Pkt("done_response", status, 0).cmd = "done_response"
    BY <2>2 DEF S!Pkt, Packet, PacketNames, S!Cmds
  <2>4. spc \in {"finish", "fail"} /\ toHost = <<>>
    <3>1. <<Done>> # <<>>
      BY Shorts
    <3>2. QED
      BY <1>5, <3>1 DEF SaharaInv, ToModule
  <2>5. toHost' = <<S!Pkt("done_response", status, 0)>>
    BY <2>2, <2>4, Shorts
  <2>6. toHost' \in Seq(Packet) /\ \A i \in 1 .. Len(toHost') : toHost'[i].cmd = "done_response"
    BY <2>3, <2>5
  <2>7. SaharaTypes'
    BY <1>1, <2>2, <2>6 DEF SaharaInv, SaharaTypes
  <2>8. ToModule' /\ ToTool' /\ Together'
    BY <1>1, <2>1, <2>2, <2>4, <2>6 DEF ToModule, ToTool, Together
  <2>9. Received'
    BY <1>5, <2>2 DEF SaharaInv, Received
  <2>10. QED
    BY <2>7, <2>8, <2>9 DEF SaharaInv
<1>6. ASSUME sdev = "ask", want > 0,
             NEW n \in 0 .. want, toDev = <<S!Pkt("data", Len(loaded), n)>>
      PROVE  SaharaInv'
  <2>1. p = S!Pkt("data", Len(loaded), n) /\ toDev' = <<>>
    BY <1>1, <1>6, Shorts
  <2>2. p.cmd = "data" /\ p.a = Len(loaded) /\ p.b = n
    BY <2>1 DEF S!Pkt
  <2>3. S!TakeData(p) /\ sdev' = "ask"
    BY <1>6, <2>2 DEF S!Take
  <2>4. /\ loaded \in Seq(Nat) /\ Len(loaded) \in Nat /\ want \in Nat
        /\ \A i \in 1 .. Len(loaded) : loaded[i] = i
        /\ Len(loaded) + want <= ImageSize /\ ImageSize \in Nat
    BY SaharaAssumption DEF SaharaInv, SaharaTypes, Received
  <2>5. loaded' = loaded \o [i \in 1 .. n |-> Len(loaded) + i]
    BY <2>2, <2>3 DEF S!TakeData
  <2>6. /\ loaded' \in Seq(Nat) /\ Len(loaded') = Len(loaded) + n
        /\ \A i \in 1 .. Len(loaded') : loaded'[i] = i
    BY <1>6, <2>4, <2>5, PiecesFollow
  <2>7. Len(loaded') <= ImageSize /\ n \in Nat
    BY <1>6, <2>4, <2>6
  <2>8. toDev # <<>> /\ \A i \in 1 .. Len(toHost) : toHost[i].cmd = "hello"
    BY <1>1, <1>6 DEF SaharaInv, ToTool
  <2>9. spc \in {"loop", "fail"}
    BY <1>6 DEF SaharaInv, SaharaTypes, Together
  <2>10. CASE n < want
    <3>1. want' = want - n /\ toHost' = toHost
      BY <2>2, <2>3, <2>10 DEF S!TakeData
    <3>2. want' \in Nat /\ want' > 0 /\ Len(loaded') + want' <= ImageSize
      BY <2>4, <2>6, <2>7, <2>10, <3>1
    <3>3. SaharaTypes'
      BY <1>1, <2>3, <2>6, <3>1, <3>2 DEF SaharaInv, SaharaTypes
    <3>4. ToModule'
      BY <2>1, <2>3 DEF ToModule
    <3>5. ToTool'
      BY <2>3, <2>8, <3>1 DEF ToTool
    <3>6. Together' /\ Received'
      BY <1>1, <2>3, <2>6, <2>9, <3>2 DEF Together, Received
    <3>7. QED
      BY <3>3, <3>4, <3>5, <3>6 DEF SaharaInv
  <2>11. CASE ~(n < want)
    <3>1. S!AskOrEnd(Len(loaded'))
      BY <2>2, <2>3, <2>11 DEF S!TakeData
    <3>2. SaharaTypes
      BY DEF SaharaInv
    <3>3. QED
      BY <1>1, <1>6, <2>1, <2>3, <2>6, <2>7, <2>8, <2>9, <3>1, <3>2, AskOrEndStep
  <2>12. QED
    BY <2>10, <2>11
<1>7. \/ sdev = "left"
      \/ sdev \in {"mute", "hello"} /\ p = Byte
      \/ sdev = "hello" /\ p = Greeting
      \/ sdev = "ask" /\ want = 0 /\ toDev = <<Done>>
      \/ sdev = "ask" /\ want > 0 /\ \E n \in 0 .. want : toDev = <<S!Pkt("data", Len(loaded), n)>>
  <2>1. toDev = <<Byte>> => p = Byte
    BY Shorts
  <2>2. toDev = <<Byte, Greeting>> => p = Byte
    BY Shorts
  <2>3. toDev = <<Greeting>> => p = Greeting
    BY Shorts
  <2>4. sdev \in {"mute", "hello", "ask", "loaded", "left"}
    BY <1>1 DEF SaharaInv, SaharaTypes
  <2> HIDE DEF p
  <2>5. sdev = "mute" => p = Byte
    BY <1>1, <2>1 DEF SaharaInv, ToModule
  <2>6. sdev = "hello" => p \in {Byte, Greeting}
    BY <1>1, <2>1, <2>2, <2>3 DEF SaharaInv, ToModule
  <2>7. sdev # "loaded"
    BY <1>1 DEF SaharaInv, ToModule
  <2>8. ASSUME sdev = "ask"
        PROVE  \/ want = 0 /\ toDev = <<Done>>
               \/ want > 0 /\ \E n \in 0 .. want : toDev = <<S!Pkt("data", Len(loaded), n)>>
    BY <1>1, <2>8, Zenon DEF SaharaInv, ToModule
  <2>9. QED
    BY <2>4, <2>5, <2>6, <2>7, <2>8
<1>8. QED
  BY <1>2, <1>3, <1>4, <1>5, <1>6, <1>7

\* A call of the tool begins.
LEMMA SaharaBegins ==
  ASSUME NEW b \in S!Beginnings
  PROVE  /\ b.dev \in {"mute", "late", "hello"} /\ b.toHost \in Seq(Packet)
         /\ b.dev # "hello" => b.toHost = <<>>
         /\ \A i \in 1 .. Len(b.toHost) : b.toHost[i].cmd = "hello"
<1>1. S!Pkt("hello", 0, 0) \in Packet /\ S!Pkt("hello", 0, 0).cmd = "hello"
  BY DEF S!Pkt, Packet, PacketNames, S!Cmds
<1>2. CASE b = [dev |-> "hello", toHost |-> <<S!Pkt("hello", 0, 0)>>]
  <2>1. b.dev = "hello" /\ b.toHost = <<S!Pkt("hello", 0, 0)>>
    BY <1>2
  <2>2. QED
    BY <1>1, <2>1
<1>3. ASSUME NEW d \in {"late", "mute"}, b = [dev |-> d, toHost |-> <<>>]
      PROVE  /\ b.dev \in {"mute", "late"} /\ b.toHost = <<>>
  BY <1>3
<1>4. <<>> \in Seq(Packet) /\ Len(<<>>) = 0
  OBVIOUS
<1>5. \/ b = [dev |-> "hello", toHost |-> <<S!Pkt("hello", 0, 0)>>]
      \/ \E d \in {"late", "mute"} : b = [dev |-> d, toHost |-> <<>>]
  BY DEF S!Beginnings
<1>6. CASE \E d \in {"late", "mute"} : b = [dev |-> d, toHost |-> <<>>]
  <2>1. b.dev \in {"mute", "late"} /\ b.toHost = <<>>
    BY <1>3, <1>6
  <2>2. QED
    BY <1>4, <2>1
<1>7. QED
  BY <1>2, <1>5, <1>6

\* Every step of sahara_flash_all and of the boot loader keeps the invariant.
LEMMA SaharaStep ==
  ASSUME SaharaInv, spc # "over", S!Next
  PROVE  SaharaInv'
BY SilenceStep, RxStep, LateHelloStep, TakeStep, StrangeStep DEF S!Next

\* Nothing of Sahara changes.
LEMMA SaharaStutter ==
  ASSUME SaharaInv, UNCHANGED svars
  PROVE  SaharaInv'
<1>1. UNCHANGED <<spc, toHost, toDev, sdev, loaded, want, id, file>>
  BY DEF svars
<1>2. \A x : Request(x)' <=> Request(x)
  BY <1>1 DEF Request, Asked
<1>3. SaharaTypes' /\ Together' /\ Received'
  BY <1>1 DEF SaharaInv, SaharaTypes, Together, Received
<1>4. ToTool'
  BY <1>1, <1>2 DEF SaharaInv, ToTool
<1>5. ToModule'
  BY <1>1 DEF SaharaInv, ToModule
<1>6. QED
  BY <1>3, <1>4, <1>5 DEF SaharaInv

\* sahara_main, in every call of the tool, whatever firehose_main does in between.
THEOREM SaharaInvariant == QSpec => []SaharaInv
<1>1. ASSUME NEW b \in S!Beginnings, spc = "hello", sdev = b.dev, toHost = b.toHost,
             toDev = <<>>, loaded = <<>>, want = 0, file \in FileSizes
      PROVE  SaharaInv
  <2>1. /\ sdev \in {"mute", "late", "hello"} /\ toHost \in Seq(Packet)
        /\ sdev # "hello" => toHost = <<>>
        /\ \A i \in 1 .. Len(toHost) : toHost[i].cmd = "hello"
    BY <1>1, SaharaBegins
  <2>2. toDev \in Seq(Packet) /\ loaded \in Seq(Nat) /\ Len(loaded) = 0
    BY <1>1
  <2>3. file \in Nat /\ ImageSize \in Nat
    BY <1>1, SaharaAssumption
  <2>4. SaharaTypes
    BY <1>1, <2>1, <2>2, <2>3 DEF SaharaTypes
  <2>5. ToModule /\ ToTool /\ Together /\ Received
    BY <1>1, <2>1, <2>2, <2>3 DEF ToModule, ToTool, Together, Received
  <2>6. QED
    BY <2>4, <2>5 DEF SaharaInv
<1>2. QInit => SaharaInv
  BY <1>1 DEF QInit, S!Init
<1>3. SaharaInv /\ [QNext]_allvars => SaharaInv'
  <2> SUFFICES ASSUME SaharaInv, [QNext]_allvars PROVE SaharaInv'
    OBVIOUS
  <2>1. CASE UNCHANGED allvars
    BY <2>1, SaharaStutter DEF allvars
  <2>2. CASE LoadProgrammer
    BY <2>2, SaharaStep DEF LoadProgrammer
  <2>3. CASE BeginFirehose
    <3>1. /\ spc' = "over" /\ sdev' = "mute" /\ toHost' = <<>> /\ toDev' = <<>>
          /\ loaded' = <<>> /\ want' = 0 /\ file' = ImageSize
      BY <2>3 DEF BeginFirehose
    <3>2. <<>> \in Seq(Packet) /\ <<>> \in Seq(Nat) /\ Len(<<>>) = 0 /\ ImageSize \in Nat
      BY SaharaAssumption
    <3>3. SaharaTypes'
      BY <3>1, <3>2 DEF SaharaTypes
    <3>4. ToModule' /\ ToTool' /\ Together' /\ Received'
      BY <3>1, <3>2 DEF ToModule, ToTool, Together, Received
    <3>5. QED
      BY <3>3, <3>4 DEF SaharaInv
  <2>4. CASE Work /\ UNCHANGED svars
    BY <2>4, SaharaStutter
  <2>5. CASE CallAgain
    <3>1. PICK b \in S!Beginnings : sdev' = b.dev /\ toHost' = b.toHost
      BY <2>5 DEF CallAgain
    <3>2. /\ spc' = "hello" /\ toDev' = <<>> /\ loaded' = <<>> /\ want' = 0
          /\ file' \in FileSizes
      BY <2>5 DEF CallAgain
    <3>3. /\ sdev' \in {"mute", "late", "hello"} /\ toHost' \in Seq(Packet)
          /\ sdev' # "hello" => toHost' = <<>>
          /\ \A i \in 1 .. Len(toHost') : toHost'[i].cmd = "hello"
      BY <3>1, SaharaBegins
    <3>4. toDev' \in Seq(Packet) /\ loaded' \in Seq(Nat) /\ Len(loaded') = 0
      BY <3>2
    <3>5. file' \in Nat /\ ImageSize \in Nat
      BY <3>2, SaharaAssumption
    <3>6. SaharaTypes'
      BY <3>2, <3>3, <3>4, <3>5 DEF SaharaTypes
    <3>7. ToModule' /\ ToTool' /\ Together' /\ Received'
      BY <3>2, <3>3, <3>4, <3>5 DEF ToModule, ToTool, Together, Received
    <3>8. QED
      BY <3>6, <3>7 DEF SaharaInv
  <2>6. QED
    BY <2>1, <2>2, <2>3, <2>4, <2>5 DEF QNext
<1>4. QED
  BY <1>2, <1>3, PTL DEF QSpec

\* "Sahara protocol completed" is said only of a module that has the whole
\* programmer, for every size, every way the requests are cut and every file.
THEOREM ProgrammerIsWhole == QSpec => []CompletedMeansLoaded
<1>1. SaharaInv => CompletedMeansLoaded
  <2> SUFFICES ASSUME SaharaInv, spc = "ok" PROVE loaded = [i \in 1 .. ImageSize |-> i]
    BY DEF CompletedMeansLoaded, S!CompletedMeansLoaded
  <2>1. Len(loaded) = ImageSize /\ loaded \in Seq(Nat) /\ \A i \in 1 .. Len(loaded) : loaded[i] = i
    BY DEF SaharaInv, SaharaTypes, Together, Received
  <2>2. loaded = [i \in 1 .. Len(loaded) |-> loaded[i]]
    BY <2>1
  <2>3. QED
    BY <2>1, <2>2
<1>2. QED
  BY <1>1, SaharaInvariant, PTL

\* A hello that is lost, late or repeated never makes the two ends lose step.
THEOREM StaysInStep == QSpec => []NeverOutOfStep
<1>1. SaharaInv => NeverOutOfStep
  <2> SUFFICES ASSUME SaharaInv PROVE NeverOutOfStep
    OBVIOUS
  <2>1. sdev # "lost"
    BY DEF SaharaInv, SaharaTypes
  <2>2. ASSUME spc = "finish", toHost # <<>> PROVE Head(toHost).cmd = "done_response"
    <3>1. sdev = "loaded"
      BY <2>2 DEF SaharaInv, Together
    <3>2. Head(toHost) = toHost[1] /\ 1 \in 1 .. Len(toHost)
      BY <2>2, Reading DEF SaharaInv, SaharaTypes
    <3>3. QED
      BY <3>1, <3>2 DEF SaharaInv, ToTool
  <2>3. QED
    BY <2>1, <2>2 DEF NeverOutOfStep, S!NeverOutOfStep
<1>2. QED
  BY <1>1, SaharaInvariant, PTL

-----------------------------------------------------------------------------
(* Firehose: the two ends in lock step.                                    *)

CommandTypes == {"configure", "erase", "vendor", "program", "patch",
                 "setbootablestoragedrive", "reset"}
RunRecord == [start : Nat, offset : Nat, size : Nat]
Planned == [type : CommandTypes, part : Partition, runs : Seq(RunRecord)]

\* A plan as firehose_main makes it: it begins with configure and ends with reset,
\* only program commands have data, and every run of them has some.
Sensible(p) ==
  /\ p \in Seq(Planned) /\ Len(p) > 0
  /\ p[1].type = "configure" /\ p[Len(p)].type = "reset"
  /\ \A k \in 1 .. Len(p) :
       IF p[k].type = "program"
       THEN \A g \in 1 .. Len(p[k].runs) : p[k].runs[g].size > 0
       ELSE Len(p[k].runs) = 1

Message == Answer \cup {Log, Junk}
Payloads == Limits \cup {MaxPayload}
Device == [mode : {"idle", "cmd", "raw"}, type : CommandTypes \cup {"none"},
           part : Partition, run : RunRecord, got : Nat, limit : Payloads]

FirehoseTypes ==
  /\ Sensible(plan)
  /\ pc \in Phases
  /\ at \in 1 .. Len(plan)
  /\ group \in Nat /\ group <= Len(Now.runs) /\ filesend \in Nat
  /\ payload \in Payloads
  /\ sk \in Seq(Answer) /\ usb \in Seq(Message)
  /\ reader \in {"run", "dead"}
  /\ dev \in Device

\* No answer is under way, or one at most.
Quiet == sk = <<>> /\ Responses(usb) = {}
Single == \/ sk = <<>> /\ \A i, j \in Responses(usb) : i = j
          \/ Len(sk) = 1 /\ Responses(usb) = {}

\* What an answer says is what the module is in.
Agrees(r, d, command, n) ==
  /\ r.raw <=> d.mode = "raw"
  /\ r.max \in {0, d.limit}
  /\ r.ack /\ command.type = "configure" => n <= d.limit
Sound(r) == Agrees(r, dev, Now, payload)

Sounds ==
  /\ \A i \in 1 .. Len(sk) : Sound(sk[i])
  /\ \A i \in Responses(usb) : Sound(usb[i])

\* The module, by where the main thread is.
Turns ==
  /\ pc \in {"drain", "send", "again"} => Quiet /\ dev.mode = "idle"
  /\ pc \in {"answer", "answer2"} =>
       /\ Single /\ Sounds
       /\ dev.mode = "cmd" => Quiet /\ dev.type = Now.type /\ dev.run = Run
       /\ dev.mode = "raw" => Now.type = "program" /\ dev.run = Run /\ dev.got = 0
  /\ pc = "image" => /\ Quiet /\ dev.mode = "raw" /\ dev.run = Run
                     /\ dev.got = filesend /\ filesend < Run.size
                     /\ filesend % SECTOR_SIZE_IN_BYTES = 0
  /\ pc = "written" => /\ Single /\ dev.mode # "cmd"
                       /\ dev.mode = "raw" => Quiet

\* Where the main thread is in the plan.
Working ==
  /\ Now.type # "program" => group = 0
  /\ pc \in {"answer", "again", "answer2", "image", "written"} => group < Len(Now.runs)
  /\ pc \in {"image", "written"} => Now.type = "program"
  /\ at > 1 => payload <= dev.limit
  /\ dev.mode = "raw" => dev.got <= Expected

FirehoseInv == FirehoseTypes /\ Turns /\ Working

\* What is never in doubt about the messages.
LEMMA Messages ==
  /\ Log \in Message /\ Log.kind # "response"
  /\ Junk \in Message /\ Junk.kind # "response"
  /\ \A r \in Answer : r \in Message /\ r.kind = "response"
BY DEF Message, Answer, Log, Junk

\* A message is added to what is on USB.
LEMMA Added ==
  ASSUME NEW q \in Seq(Message), NEW m \in Message
  PROVE  /\ Append(q, m) \in Seq(Message)
         /\ m.kind # "response" => Responses(Append(q, m)) = Responses(q)
         /\ m.kind = "response" => Responses(Append(q, m)) = Responses(q) \cup {Len(q) + 1}
         /\ Append(q, m)[Len(q) + 1] = m
         /\ \A i \in Responses(q) : Append(q, m)[i] = q[i]
<1>1. Len(q) \in Nat /\ Append(q, m) \in Seq(Message) /\ Len(Append(q, m)) = Len(q) + 1
  OBVIOUS
<1>2. Append(q, m)[Len(q) + 1] = m /\ \A i \in 1 .. Len(q) : Append(q, m)[i] = q[i]
  OBVIOUS
<1>3. \A i : i \in 1 .. Len(q) + 1 <=> i \in 1 .. Len(q) \/ i = Len(q) + 1
  BY <1>1
<1>4. Len(q) + 1 \notin 1 .. Len(q)
  BY <1>1
<1>5. \A i \in Responses(q) : i \in 1 .. Len(q)
  BY DEF Responses
<1>6. \A i : i \in Responses(Append(q, m)) <=>
        i \in Responses(q) \/ (i = Len(q) + 1 /\ m.kind = "response")
  BY <1>1, <1>2, <1>3, <1>4 DEF Responses
<1>7. QED
  BY <1>1, <1>2, <1>5, <1>6

\* No message of what was read comes from elsewhere.
LEMMA Cut ==
  ASSUME NEW q \in Seq(Message), NEW k \in 1 .. Len(q)
  PROVE  LET b == SubSeq(q, 1, k)
             rest == SubSeq(q, k + 1, Len(q))
         IN  /\ b \in Seq(Message) /\ rest \in Seq(Message)
             /\ \A i \in Responses(b) : i \in Responses(q) /\ b[i] = q[i] /\ i <= k
             /\ \A i \in Responses(rest) : i + k \in Responses(q) /\ rest[i] = q[i + k] /\ i \in Nat /\ i > 0
<1> DEFINE b == SubSeq(q, 1, k)
           rest == SubSeq(q, k + 1, Len(q))
<1>1. Len(q) \in Nat /\ k \in Nat /\ k <= Len(q) /\ k >= 1
  OBVIOUS
<1>2. b \in Seq(Message) /\ Len(b) = k /\ \A i \in 1 .. k : b[i] = q[i]
  <2>1. \A i \in 1 .. k : q[i] \in Message
    BY <1>1
  <2>2. b \in Seq(Message) /\ Len(b) = k
    BY <1>1, <2>1, SubSeqProperties
  <2>3. \A i \in 1 .. k : b[i] = q[1 + i - 1]
    BY <1>1, <2>1, SubSeqProperties
  <2>4. \A i \in 1 .. k : 1 + i - 1 = i
    OBVIOUS
  <2>5. QED
    BY <2>2, <2>3, <2>4
<1>3. /\ rest \in Seq(Message) /\ Len(rest) = Len(q) - k
      /\ \A i \in 1 .. Len(q) - k : rest[i] = q[i + k]
  <2>1. \A i \in k + 1 .. Len(q) : q[i] \in Message
    BY <1>1
  <2>2. rest \in Seq(Message) /\ Len(rest) = Len(q) - k
    BY <1>1, <2>1, SubSeqProperties
  <2>3. \A i \in 1 .. Len(q) - k : rest[i] = q[(k + 1) + i - 1]
    BY <1>1, <2>1, SubSeqProperties
  <2>4. \A i \in 1 .. Len(q) - k : (k + 1) + i - 1 = i + k
    BY <1>1
  <2>5. QED
    BY <2>2, <2>3, <2>4
<1> HIDE DEF b, rest
<1>4. \A i \in 1 .. k : i \in 1 .. Len(q)
  BY <1>1
<1>5. \A i \in 1 .. Len(q) - k : i + k \in 1 .. Len(q) /\ i \in Nat /\ i > 0
  BY <1>1
<1>6. \A i \in Responses(b) : i \in Responses(q) /\ b[i] = q[i] /\ i <= k
  BY <1>2, <1>4 DEF Responses
<1>7. \A i \in Responses(rest) : i + k \in Responses(q) /\ rest[i] = q[i + k] /\ i \in Nat /\ i > 0
  BY <1>3, <1>5 DEF Responses
<1>8. QED
  BY <1>2, <1>3, <1>6, <1>7 DEF b, rest

\* The rest of the state as it was: what is under way decides.
LEMMA OnlyMessages ==
  ASSUME FirehoseInv, UNCHANGED <<host, dev>>, reader' \in {"run", "dead"},
         sk' \in Seq(Answer), usb' \in Seq(Message),
         pc # "bye" /\ Quiet => Quiet', pc # "bye" /\ Single => Single',
         pc # "bye" /\ Sounds => Sounds'
  PROVE  FirehoseInv'
<1>1. UNCHANGED <<plan, pc, at, group, payload, filesend, dev>> /\ Now' = Now /\ Run' = Run
      /\ Expected' = Expected
  BY DEF host, Now, Run, Expected
<1>2. FirehoseTypes'
  BY <1>1 DEF FirehoseInv, FirehoseTypes
<1>3. Working'
  BY <1>1 DEF FirehoseInv, Working
<1>4. Turns'
  BY <1>1 DEF FirehoseInv, Turns
<1>5. QED
  BY <1>2, <1>3, <1>4 DEF FirehoseInv

\* The module logs.
LEMMA ChatterStep ==
  ASSUME FirehoseInv, Chatter
  PROVE  FirehoseInv'
<1>1. PICK m \in {Log, Junk} : usb' = Append(usb, m)
  BY DEF Chatter, Say
<1>2. m \in Message /\ m.kind # "response"
  BY <1>1, Messages
<1>3. usb \in Seq(Message)
  BY DEF FirehoseInv, FirehoseTypes
<1>4. /\ usb' \in Seq(Message) /\ Responses(usb') = Responses(usb)
      /\ \A i \in Responses(usb) : usb'[i] = usb[i]
  BY <1>1, <1>2, <1>3, Added
<1>5. UNCHANGED <<host, dev, sk, reader>> /\ Now' = Now /\ payload' = payload
  BY DEF Chatter, host, Now
<1>6. (Quiet => Quiet') /\ (Single => Single')
  BY <1>4, <1>5 DEF Quiet, Single
<1>7. Sounds => Sounds'
  BY <1>4, <1>5 DEF Sounds, Sound
<1>8. sk' \in Seq(Answer) /\ reader' \in {"run", "dead"}
  BY <1>5 DEF FirehoseInv, FirehoseTypes
<1>9. QED
  BY <1>4, <1>5, <1>6, <1>7, <1>8, OnlyMessages

\* sdx20 answers once more, when the main thread only drains.
LEMMA SecondAnswerStep ==
  ASSUME FirehoseInv, SecondAnswer
  PROVE  FirehoseInv'
<1>1. Response(TRUE, FALSE, 0) \in Message
  BY DEF Response, Message, Answer
<1>2. usb' \in Seq(Message)
  BY <1>1, Added DEF SecondAnswer, Say, FirehoseInv, FirehoseTypes
<1>3. UNCHANGED <<host, dev, sk, reader>> /\ pc = "bye"
  BY DEF SecondAnswer
<1>4. sk' \in Seq(Answer) /\ reader' \in {"run", "dead"}
  BY <1>3 DEF FirehoseInv, FirehoseTypes
<1>5. QED
  BY <1>2, <1>3, <1>4, OnlyMessages

\* _fh_recv_cmd: an answer is handed over, dropped or left where it is.
LEMMA ReadUsbStep ==
  ASSUME FirehoseInv, NEW k \in 1 .. Len(usb), ReadUsb(k)
  PROVE  FirehoseInv'
<1> DEFINE b == SubSeq(usb, 1, k)
           answers == Responses(b) \cap Parsed(b)
<1>1. usb \in Seq(Message) /\ sk \in Seq(Answer) /\ Len(sk) \in Nat
  BY DEF FirehoseInv, FirehoseTypes
<1>2. usb' = SubSeq(usb, k + 1, Len(usb)) /\ UNCHANGED <<host, dev>>
  BY DEF ReadUsb
<1>3. /\ b \in Seq(Message) /\ usb' \in Seq(Message)
      /\ \A i \in Responses(b) : i \in Responses(usb) /\ b[i] = usb[i] /\ i <= k
      /\ \A i \in Responses(usb') : i + k \in Responses(usb) /\ usb'[i] = usb[i + k] /\ i \in Nat /\ i > 0
  BY <1>1, <1>2, Cut
<1>4. Now' = Now /\ payload' = payload /\ dev' = dev /\ reader' \in {"run", "dead"}
  BY DEF ReadUsb, host, Now, FirehoseInv, FirehoseTypes
<1>5. \/ sk' = sk
      \/ \E i \in Responses(b) : sk' = Append(sk, b[i])
  BY DEF ReadUsb
<1> HIDE DEF b
<1>6. CASE sk' = sk
  <2>1. Quiet => Quiet'
    BY <1>3, <1>6 DEF Quiet
  <2>2. Single => Single'
    <3>1. ASSUME \A i, j \in Responses(usb) : i = j, NEW i \in Responses(usb'), NEW j \in Responses(usb')
          PROVE  i = j
      <4>1. i + k = j + k /\ i \in Nat /\ j \in Nat
        BY <1>3, <3>1
      <4>2. QED
        BY <4>1
    <3>2. Responses(usb) = {} => Responses(usb') = {}
      BY <1>3
    <3>3. QED
      BY <1>6, <3>1, <3>2 DEF Single
  <2>3. Sounds => Sounds'
    BY <1>3, <1>4, <1>6 DEF Sounds, Sound
  <2>4. QED
    BY <1>1, <1>2, <1>3, <1>4, <1>6, <2>1, <2>2, <2>3, OnlyMessages
<1>7. ASSUME NEW i \in Responses(b), sk' = Append(sk, b[i])
      PROVE  FirehoseInv'
  <2>1. i \in Responses(usb) /\ b[i] = usb[i] /\ i <= k /\ i \in Nat
    BY <1>3, <1>7 DEF Responses
  <2>2. usb[i] \in Answer
    <3>1. usb[i] \in Message /\ usb[i].kind = "response"
      BY <1>1, <2>1 DEF Responses
    <3>2. QED
      BY <3>1, Messages DEF Message
  <2>3. /\ sk' \in Seq(Answer) /\ Len(sk') = Len(sk) + 1 /\ sk'[Len(sk) + 1] = usb[i]
        /\ \A j \in 1 .. Len(sk) : sk'[j] = sk[j]
    BY <1>1, <1>7, <2>1, <2>2
  <2>4. Quiet => Quiet'
    BY <2>1 DEF Quiet
  <2>5. Single => Single'
    <3> SUFFICES ASSUME Single PROVE Single'
      OBVIOUS
    <3>1. sk = <<>> /\ \A x, y \in Responses(usb) : x = y
      BY <2>1 DEF Single
    <3>2. Len(sk') = 1
      BY <2>3, <3>1
    <3>3. ASSUME NEW x \in Responses(usb') PROVE FALSE
      <4>1. x + k = i /\ x \in Nat /\ x > 0 /\ k \in Nat
        BY <1>3, <2>1, <3>1
      <4>2. QED
        BY <2>1, <4>1
    <3>4. QED
      BY <3>2, <3>3 DEF Single
  <2>6. Sounds => Sounds'
    <3> SUFFICES ASSUME Sounds PROVE Sounds'
      OBVIOUS
    <3>1. ASSUME NEW x \in 1 .. Len(sk') PROVE Agrees(sk'[x], dev', Now', payload')
      <4>1. x = Len(sk) + 1 \/ x \in 1 .. Len(sk)
        BY <1>1, <2>3
      <4>2. Agrees(sk'[x], dev, Now, payload)
        BY <2>1, <2>3, <4>1 DEF Sounds, Sound
      <4>3. QED
        BY <1>4, <4>2
    <3>2. ASSUME NEW x \in Responses(usb') PROVE Agrees(usb'[x], dev', Now', payload')
      BY <1>3, <1>4, <3>2 DEF Sounds, Sound
    <3>3. QED
      BY <3>1, <3>2 DEF Sounds, Sound
  <2>7. QED
    BY <1>2, <1>3, <1>4, <2>3, <2>4, <2>5, <2>6, OnlyMessages
<1>8. QED
  BY <1>5, <1>6, <1>7

\* The run has failed, or is over.
LEMMA FailStep ==
  ASSUME FirehoseInv, pc' \in {"failed", "bye"}, UNCHANGED <<plan, at, group, payload, reader>>,
         filesend' \in Nat, sk' \in Seq(Answer), usb' \in Seq(Message),
         dev' \in Device, dev'.limit = dev.limit, dev' = dev \/ dev'.mode = "idle"
  PROVE  FirehoseInv'
<1>1. Now' = Now /\ (dev' = dev => Expected' = Expected)
  BY DEF Now, Expected
<1>2. FirehoseTypes' /\ Turns' /\ Working'
  BY <1>1 DEF FirehoseInv, FirehoseTypes, Turns, Working, Phases
<1>3. QED
  BY <1>2 DEF FirehoseInv

\* What the constants give.
LEMMA Sizes ==
  /\ 0 \in Partition /\ MaxPayload \in Payloads /\ Limits \subseteq Payloads
  /\ \A n \in Payloads : n \in Nat /\ n > 0 /\ n % SECTOR_SIZE_IN_BYTES = 0
  /\ SECTOR_SIZE_IN_BYTES \in Nat /\ SECTOR_SIZE_IN_BYTES > 0
BY SizesAssumption, SparseAssumption DEF Payloads

\* A module at rest.
LEMMA AtRest ==
  ASSUME NEW l \in Payloads
  PROVE  Idle(l) \in Device /\ Idle(l).mode = "idle" /\ Idle(l).limit = l
<1>1. Whole(0) \in RunRecord
  BY DEF Whole, RunRecord
<1>2. QED
  BY <1>1, Sizes DEF Idle, Device

\* The tool or the module begins anew.
LEMMA BeginStep ==
  ASSUME Sensible(plan), plan' = plan, pc' \in {"idle", "drain"},
         at' = 1, group' = 0, payload' = MaxPayload, filesend' = 0,
         sk' = <<>>, usb' = <<>>, reader' = "run",
         NEW l \in Payloads, dev' = Idle(l)
  PROVE  FirehoseInv'
<1>1. dev' \in Device /\ dev'.mode = "idle"
  BY AtRest
<1>2. sk' \in Seq(Answer) /\ usb' \in Seq(Message) /\ Len(sk') = 0 /\ Responses(usb') = {}
  BY DEF Responses
<1>3. at' \in 1 .. Len(plan') /\ Now'.runs \in Seq(RunRecord)
  <2>1. 1 \in 1 .. Len(plan) /\ plan[1] \in Planned
    BY DEF Sensible
  <2>2. QED
    BY <2>1 DEF Now, Planned
<1>4. Len(Now'.runs) \in Nat
  BY <1>3
<1>5. FirehoseTypes'
  BY <1>1, <1>2, <1>3, <1>4, Sizes DEF FirehoseTypes, Phases
<1>6. Turns'
  BY <1>1, <1>2 DEF Turns, Quiet
<1>7. Working'
  BY <1>1 DEF Working
<1>8. QED
  BY <1>5, <1>6, <1>7 DEF FirehoseInv

\* The command the main thread works on.
LEMMA AtWork ==
  ASSUME FirehoseInv
  PROVE  /\ Len(plan) \in Nat /\ at \in Nat /\ at >= 1 /\ at <= Len(plan)
         /\ Now \in Planned /\ Now.type \in CommandTypes /\ Now.part \in Partition
         /\ Now.runs \in Seq(RunRecord) /\ Len(Now.runs) \in Nat
         /\ Now.type # "reset" => at + 1 \in 1 .. Len(plan)
         /\ Now.type # "program" => Len(Now.runs) = 1
         /\ group < Len(Now.runs) => /\ Run \in RunRecord /\ Run.size \in Nat
                                     /\ Now.type = "program" => Run.size > 0
<1>1. plan \in Seq(Planned) /\ Len(plan) \in Nat /\ at \in 1 .. Len(plan) /\ group \in Nat
  BY DEF FirehoseInv, FirehoseTypes, Sensible
<1>2. at \in Nat /\ at >= 1 /\ at <= Len(plan)
  BY <1>1
<1>3. Now \in Planned
  BY <1>1 DEF Now
<1>4. /\ Now.type \in CommandTypes /\ Now.part \in Partition
      /\ Now.runs \in Seq(RunRecord) /\ Len(Now.runs) \in Nat
  BY <1>3 DEF Planned
<1>5. Now.type # "reset" => at # Len(plan)
  BY DEF FirehoseInv, FirehoseTypes, Sensible, Now
<1>6. Now.type # "reset" => at + 1 \in 1 .. Len(plan)
  BY <1>1, <1>2, <1>5
<1>7. IF Now.type = "program" THEN \A g \in 1 .. Len(Now.runs) : Now.runs[g].size > 0
      ELSE Len(Now.runs) = 1
  BY <1>1 DEF FirehoseInv, FirehoseTypes, Sensible, Now
<1>8. ASSUME group < Len(Now.runs)
      PROVE  Run \in RunRecord /\ Run.size \in Nat /\ (Now.type = "program" => Run.size > 0)
  <2>1. group + 1 \in 1 .. Len(Now.runs)
    BY <1>1, <1>4, <1>8
  <2>2. Run \in RunRecord
    BY <1>4, <2>1 DEF Run
  <2>3. Now.type = "program" => Run.size > 0
    BY <1>7, <2>1 DEF Run
  <2>4. QED
    BY <2>2, <2>3 DEF RunRecord
<1>9. QED
  BY <1>1, <1>2, <1>3, <1>4, <1>6, <1>7, <1>8

\* On to the next command, with nothing under way.
LEMMA NextStep ==
  ASSUME FirehoseInv, Now.type # "reset", Quiet', dev.mode = "idle",
         Now.type = "configure" => payload <= dev.limit,
         at' = at + 1, group' = 0, pc' = "send",
         UNCHANGED <<plan, payload, reader, dev>>,
         filesend' \in Nat, sk' \in Seq(Answer), usb' \in Seq(Message)
  PROVE  FirehoseInv'
<1>1. at' \in 1 .. Len(plan')
  BY AtWork
<1>2. Now'.runs \in Seq(RunRecord)
  <2>1. plan[at'] \in Planned
    BY <1>1 DEF FirehoseInv, FirehoseTypes, Sensible
  <2>2. QED
    BY <2>1 DEF Now, Planned
<1>3. Len(Now'.runs) \in Nat
  BY <1>2
<1>4. FirehoseTypes'
  BY <1>1, <1>3 DEF FirehoseInv, FirehoseTypes, Phases
<1>5. Turns'
  BY DEF Turns
<1>6. payload <= dev.limit
  <2>1. at > 1 \/ at = 1
    BY AtWork
  <2>2. at = 1 => Now.type = "configure"
    BY DEF Now, FirehoseInv, FirehoseTypes, Sensible
  <2>3. QED
    BY <2>1, <2>2 DEF FirehoseInv, Working
<1>7. Working'
  BY <1>6 DEF Working
<1>8. QED
  BY <1>4, <1>5, <1>7 DEF FirehoseInv

\* Answers nobody asked for.
LEMMA DrainStep ==
  ASSUME FirehoseInv, Drain
  PROVE  FirehoseInv'
<1>1. UNCHANGED <<plan, at, group, payload, filesend, reader, usb, dev>>
      /\ Now' = Now /\ Run' = Run /\ Expected' = Expected
  BY DEF Drain, Now, Run, Expected
<1>2. sk' \in Seq(Answer)
  <2>1. sk \in Seq(Answer) /\ (sk' = sk \/ (sk # <<>> /\ sk' = Tail(sk)))
    BY DEF Drain, FirehoseInv, FirehoseTypes
  <2>2. QED
    BY <2>1
<1>3. \/ pc = "drain" /\ pc' = "send" /\ sk' = sk
      \/ pc' \in {"bye", "done"}
  BY DEF Drain, FirehoseInv, Turns, Quiet
<1>4. FirehoseTypes'
  BY <1>1, <1>2, <1>3 DEF FirehoseInv, FirehoseTypes, Phases
<1>5. Turns'
  BY <1>1, <1>3 DEF FirehoseInv, Turns, Quiet
<1>6. Working'
  BY <1>1, <1>3 DEF FirehoseInv, Working
<1>7. QED
  BY <1>4, <1>5, <1>6 DEF FirehoseInv

\* The runs of a command are done.
LEMMA SkipStep ==
  ASSUME FirehoseInv, Skip
  PROVE  FirehoseInv'
<1>1. Now.type = "program"
  <2>1. Now.type # "program" => Len(Now.runs) = 1 /\ group = 0
    BY AtWork DEF FirehoseInv, Working
  <2>2. QED
    BY <2>1 DEF Skip
<1>2. Quiet' /\ dev.mode = "idle"
  BY DEF Skip, FirehoseInv, Turns, Quiet
<1>3. sk' \in Seq(Answer) /\ usb' \in Seq(Message) /\ filesend' \in Nat
  BY DEF Skip, FirehoseInv, FirehoseTypes
<1>4. QED
  BY <1>1, <1>2, <1>3, NextStep DEF Skip

\* fh_send_cmd.
LEMMA SendStep ==
  ASSUME FirehoseInv, Send
  PROVE  FirehoseInv'
<1>1. UNCHANGED <<plan, at, group, payload, filesend, reader, usb, sk>>
      /\ Now' = Now /\ Run' = Run /\ pc \in {"send", "again"} /\ pc' \in {"answer", "answer2"}
      /\ group < Len(Now.runs)
  BY DEF Send, Now, Run
<1>2. Quiet' /\ dev.mode = "idle"
  BY <1>1 DEF FirehoseInv, Turns, Quiet
<1>3. Single' /\ Sounds'
  BY <1>2 DEF Quiet, Single, Sounds
<1>4. dev \in Device /\ Now \in Planned /\ Run \in RunRecord
  BY <1>1, AtWork DEF FirehoseInv, FirehoseTypes
<1>5. \/ dev' = dev
      \/ /\ dev' \in Device /\ dev'.mode = "cmd" /\ dev'.type = Now.type /\ dev'.run = Run
         /\ dev'.limit = dev.limit
  <2>1. CASE dev' = [dev EXCEPT !.mode = "cmd", !.type = Now.type,
                                !.part = Now.part, !.run = Run]
    BY <1>4, <2>1 DEF Device, Planned
  <2>2. QED
    BY <2>1 DEF Send
<1>6. FirehoseTypes'
  BY <1>1, <1>4, <1>5 DEF FirehoseInv, FirehoseTypes, Phases
<1>7. Turns'
  BY <1>1, <1>2, <1>3, <1>5 DEF Turns
<1>8. Working'
  BY <1>1, <1>2, <1>5 DEF FirehoseInv, Working
<1>9. QED
  BY <1>6, <1>7, <1>8 DEF FirehoseInv

\* The answer in hand is the only one, and says what the module is in.
LEMMA InHand ==
  ASSUME FirehoseInv, pc \in {"answer", "answer2", "written"}, sk # <<>>
  PROVE  /\ Head(sk) \in Answer /\ Tail(sk) = <<>> /\ Responses(usb) = {}
         /\ dev.mode \in {"idle", "raw"}
         /\ pc = "written" => dev.mode = "idle"
         /\ pc # "written" => Sound(Head(sk))
<1>1. sk \in Seq(Answer) /\ dev.mode \in {"idle", "cmd", "raw"}
  BY DEF FirehoseInv, FirehoseTypes, Device
<1>2. Len(sk) = 1 /\ Responses(usb) = {} /\ dev.mode # "cmd"
  BY DEF FirehoseInv, Turns, Single, Quiet
<1>3. Head(sk) = sk[1] /\ Head(sk) \in Answer /\ Tail(sk) = <<>> /\ 1 \in 1 .. Len(sk)
  <2>1. Head(sk) = sk[1] /\ 1 \in 1 .. Len(sk) /\ sk[1] \in Answer
    BY <1>1, <1>2
  <2>2. Tail(sk) \in Seq(Answer) /\ Len(Tail(sk)) = 0
    BY <1>1, <1>2
  <2>3. Tail(sk) = <<>>
    BY <2>2, EmptySeq
  <2>4. QED
    BY <2>1, <2>3
<1>4. pc = "written" => dev.mode = "idle"
  BY <1>1, <1>2 DEF FirehoseInv, Turns, Quiet
<1>5. pc # "written" => Sound(Head(sk))
  BY <1>3 DEF FirehoseInv, Turns, Sounds
<1>6. QED
  BY <1>1, <1>2, <1>3, <1>4, <1>5

\* fh_wait_response_cmd and what its callers do.
LEMMA ReceiveStep ==
  ASSUME FirehoseInv, Receive
  PROVE  FirehoseInv'
<1> DEFINE r == Head(sk)
<1>1. /\ pc \in {"answer", "answer2"} /\ sk # <<>> /\ Answered(r)
      /\ sk' = Tail(sk) /\ filesend' = 0 /\ UNCHANGED <<plan, reader, usb, dev>>
  BY DEF Receive
<1>2. /\ r \in Answer /\ sk' = <<>> /\ Responses(usb') = {} /\ dev.mode \in {"idle", "raw"}
      /\ Sound(r)
  BY <1>1, InHand
<1> HIDE DEF r
<1>3. /\ dev.mode = "raw" => Now.type = "program" /\ dev.run = Run /\ dev.got = 0
      /\ group < Len(Now.runs)
  BY <1>1 DEF FirehoseInv, Turns, Working
<1>4. /\ Quiet' /\ sk' \in Seq(Answer) /\ usb' \in Seq(Message) /\ filesend' \in Nat
      /\ dev \in Device
  BY <1>1, <1>2 DEF Quiet, FirehoseInv, FirehoseTypes
<1>5. ASSUME pc' \in {"failed", "bye"}, UNCHANGED <<at, group, payload>> PROVE FirehoseInv'
  BY <1>1, <1>4, <1>5, FailStep
<1>6. CASE Smaller(r)
  <2>1. pc' = "again" /\ payload' = r.max /\ UNCHANGED <<at, group>>
    BY <1>1, <1>6 DEF Answered, Refused, Smaller
  <2>2. payload' = dev.limit /\ dev.limit \in Payloads /\ dev.mode = "idle"
    BY <1>2, <1>3, <1>4, <1>6, <2>1 DEF Sound, Agrees, Device, Smaller
  <2>3. payload' <= dev.limit
    BY <2>2, Sizes
  <2>4. Now' = Now /\ Run' = Run
    BY <1>1, <2>1 DEF Now, Run
  <2>5. FirehoseTypes'
    BY <1>1, <1>4, <2>1, <2>2, <2>4 DEF FirehoseInv, FirehoseTypes, Phases
  <2>6. Turns'
    BY <1>1, <1>4, <2>1, <2>2 DEF Turns
  <2>7. Working'
    BY <1>1, <1>3, <2>1, <2>2, <2>3, <2>4 DEF FirehoseInv, Working
  <2>8. QED
    BY <2>5, <2>6, <2>7 DEF FirehoseInv
<1>7. CASE ~Smaller(r)
  <2>1. CASE Refused(r)
    <3>1. pc' = "failed" /\ UNCHANGED <<at, group, payload>>
      BY <1>1, <1>7, <2>1 DEF Answered, Refused
    <3>2. QED
      BY <1>5, <3>1
  <2>2. CASE ~Refused(r) /\ Now.type = "program"
    <3>1. pc' = (IF r.raw THEN "image" ELSE "failed") /\ UNCHANGED <<at, group, payload>>
      BY <1>1, <1>7, <2>2 DEF Answered, Refused
    <3>2. CASE r.raw
      <4>1. dev.mode = "raw" /\ dev.run = Run /\ dev.got = 0 /\ pc' = "image"
        BY <1>2, <1>3, <3>1, <3>2 DEF Sound, Agrees
      <4>2. Now' = Now /\ Run' = Run /\ Expected' = Expected
        BY <1>1, <3>1 DEF Now, Run, Expected
      <4>3. 0 < Run.size
        BY <1>3, <2>2, AtWork
      <4>4. 0 % SECTOR_SIZE_IN_BYTES = 0
        BY Sizes
      <4>5. FirehoseTypes'
        BY <1>1, <1>4, <3>1, <4>1, <4>2 DEF FirehoseInv, FirehoseTypes, Phases
      <4>6. Turns'
        BY <1>1, <1>4, <4>1, <4>2, <4>3, <4>4 DEF Turns
      <4>7. Working'
        BY <1>1, <1>3, <2>2, <3>1, <4>1, <4>2 DEF FirehoseInv, Working
      <4>8. QED
        BY <4>5, <4>6, <4>7 DEF FirehoseInv
    <3>3. CASE ~r.raw
      BY <1>5, <3>1, <3>3
    <3>4. QED
      BY <3>2, <3>3
  <2>3. CASE ~Refused(r) /\ Now.type = "reset"
    <3>1. pc' = "bye" /\ UNCHANGED <<at, group, payload>>
      BY <1>1, <1>7, <2>3 DEF Answered, Refused
    <3>2. QED
      BY <1>5, <3>1
  <2>4. CASE ~Refused(r) /\ Now.type \notin {"program", "reset"}
    <3>1. NextCommand /\ UNCHANGED payload
      BY <1>1, <1>7, <2>4 DEF Answered, Refused
    <3>2. dev.mode = "idle"
      BY <1>2, <1>3, <2>4
    <3>3. Now.type = "configure" => payload <= dev.limit
      BY <1>2, <2>4 DEF Refused, Sound, Agrees
    <3>4. QED
      BY <1>1, <1>4, <2>4, <3>1, <3>2, <3>3, NextStep DEF NextCommand
  <2>5. QED
    BY <2>1, <2>2, <2>3, <2>4
<1>8. QED
  BY <1>6, <1>7

\* The answer after the image.
LEMMA WrittenStep ==
  ASSUME FirehoseInv, Written
  PROVE  FirehoseInv'
<1>1. /\ pc = "written" /\ sk # <<>> /\ sk' = Tail(sk)
      /\ UNCHANGED <<plan, at, payload, filesend, reader, usb, dev>>
      /\ Now' = Now /\ Expected' = Expected
  BY DEF Written, Now, Expected
<1>2. sk' = <<>> /\ Responses(usb') = {} /\ dev.mode = "idle"
  BY <1>1, InHand
<1>3. sk' \in Seq(Answer) /\ Quiet'
  BY <1>2 DEF Quiet
<1>4. CASE group' = group + 1 /\ pc' = "send"
  <2>1. group' \in Nat /\ group' <= Len(Now.runs) /\ Now.type = "program"
    BY <1>1, <1>4, AtWork DEF FirehoseInv, FirehoseTypes, Working
  <2>2. FirehoseTypes'
    BY <1>1, <1>3, <1>4, <2>1 DEF FirehoseInv, FirehoseTypes, Phases
  <2>3. Turns'
    BY <1>1, <1>2, <1>3, <1>4 DEF Turns
  <2>4. Working'
    BY <1>1, <1>2, <1>4, <2>1 DEF FirehoseInv, Working
  <2>5. QED
    BY <2>2, <2>3, <2>4 DEF FirehoseInv
<1>5. CASE pc' = "failed" /\ group' = group
  <2>1. usb' \in Seq(Message) /\ filesend' \in Nat /\ dev' \in Device
    BY <1>1 DEF FirehoseInv, FirehoseTypes
  <2>2. QED
    BY <1>1, <1>3, <1>5, <2>1, FailStep
<1>6. QED
  BY <1>4, <1>5 DEF Written

\* poll returns 0.
LEMMA TimedOutStep ==
  ASSUME FirehoseInv, TimedOut
  PROVE  FirehoseInv'
<1>1. /\ pc' = "failed" /\ UNCHANGED <<plan, at, group, payload, filesend, sk, reader, usb, dev>>
  BY DEF TimedOut
<1>2. /\ filesend' \in Nat /\ sk' \in Seq(Answer) /\ usb' \in Seq(Message) /\ dev' \in Device
  BY <1>1 DEF FirehoseInv, FirehoseTypes
<1>3. QED
  BY <1>1, <1>2, FailStep

\* The power goes.
LEMMA PowerCutStep ==
  ASSUME FirehoseInv, PowerCut
  PROVE  FirehoseInv'
<1>1. /\ pc' = "failed" /\ UNCHANGED <<plan, at, group, payload, filesend, reader>>
      /\ dev' = Idle(dev.limit) /\ usb' = <<>> /\ sk' = <<>>
  BY DEF PowerCut
<1>2. dev.limit \in Payloads /\ filesend \in Nat
  BY DEF FirehoseInv, FirehoseTypes, Device
<1>3. sk' \in Seq(Answer) /\ usb' \in Seq(Message)
  BY <1>1
<1>4. QED
  BY <1>1, <1>2, <1>3, AtRest, FailStep

\* Whole sectors.
LEMMA Multiples ==
  /\ \A q \in Nat : SECTOR_SIZE_IN_BYTES * q \in Nat
                    /\ (SECTOR_SIZE_IN_BYTES * q) % SECTOR_SIZE_IN_BYTES = 0
  /\ \A n \in Nat : n % SECTOR_SIZE_IN_BYTES = 0 =>
                      \E q \in Nat : n = SECTOR_SIZE_IN_BYTES * q
<1> DEFINE s == SECTOR_SIZE_IN_BYTES
<1>1. s \in Nat /\ s > 0
  BY Sizes
<1> HIDE DEF s
<1>2. ASSUME NEW q \in Nat PROVE s * q \in Nat /\ (s * q) % s = 0
  <2>1. s * q \in Nat
    BY <1>1
  <2>2. PICK c \in Int, m \in Int : c = (s * q) \div s /\ m = (s * q) % s
    BY <1>1, <2>1
  <2>3. s * q = s * c + m /\ 0 <= m /\ m < s
    BY <1>1, <2>1, <2>2
  <2>4. m = s * (q - c)
    BY <1>1, <2>2, <2>3
  <2>5. q - c < 1 /\ q - c > -1
    <3>1. q - c >= 1 => s * (q - c) >= s
      BY <1>1, <2>2
    <3>2. q - c <= -1 => s * (q - c) <= -s
      BY <1>1, <2>2
    <3>3. QED
      BY <1>1, <2>2, <2>3, <2>4, <3>1, <3>2
  <2>6. q - c = 0
    BY <2>2, <2>5
  <2>7. m = 0
    BY <1>1, <2>4, <2>6
  <2>8. QED
    BY <2>1, <2>2, <2>7
<1>3. ASSUME NEW n \in Nat, n % s = 0 PROVE \E q \in Nat : n = s * q
  <2>1. PICK q \in Int : q = n \div s
    BY <1>1
  <2>2. n = s * q
    BY <1>1, <1>3, <2>1
  <2>3. q \in Nat
    <3>1. q <= -1 => s * q <= -s
      BY <1>1, <2>1
    <3>2. QED
      BY <1>1, <2>1, <2>2, <3>1
  <2>4. QED
    BY <2>2, <2>3
<1>4. QED
  BY <1>2, <1>3 DEF s

\* Padding goes up to the next whole sector.
LEMMA Padding ==
  ASSUME NEW n \in Nat
  PROVE  /\ Padded(n) \in Nat /\ n <= Padded(n) /\ Padded(n) < n + SECTOR_SIZE_IN_BYTES
         /\ Padded(n) % SECTOR_SIZE_IN_BYTES = 0
<1> DEFINE s == SECTOR_SIZE_IN_BYTES
<1>1. s \in Nat /\ s > 0
  BY Sizes
<1>2. CASE n % s = 0
  <2>1. Padded(n) = n
    BY <1>2 DEF Padded
  <2>2. QED
    BY <1>1, <1>2, <2>1
<1>3. CASE n % s # 0
  <2>1. Padded(n) = n + s - (n % s)
    BY <1>3 DEF Padded
  <2> HIDE DEF s
  <2>2. PICK q \in Int, m \in Int : q = n \div s /\ m = n % s
    BY <1>1
  <2>3. n = s * q + m /\ 0 < m /\ m < s
    BY <1>1, <1>3, <2>2
  <2>4. q >= 0
    <3>1. q <= -1 => s * q <= -s
      BY <1>1, <2>2
    <3>2. QED
      BY <1>1, <2>2, <2>3, <3>1
  <2>5. q + 1 \in Nat /\ Padded(n) = s * (q + 1)
    BY <1>1, <2>1, <2>2, <2>3, <2>4
  <2>6. Padded(n) % s = 0 /\ Padded(n) \in Nat
    BY <2>5, Multiples DEF s
  <2>7. n <= Padded(n) /\ Padded(n) < n + s
    BY <1>1, <2>1, <2>2, <2>3
  <2>8. QED
    BY <2>6, <2>7 DEF s
<1>4. QED
  BY <1>2, <1>3

\* A chunk after whole sectors ends at whole sectors, and within the last of the run.
LEMMA ChunkFits ==
  ASSUME NEW f \in Nat, f % SECTOR_SIZE_IN_BYTES = 0, NEW size \in Nat, f < size,
         NEW n \in Payloads
  PROVE  LET c == Padded(MinOf(n, size - f))
         IN  /\ c \in Nat /\ (f + c) % SECTOR_SIZE_IN_BYTES = 0 /\ f + c <= Padded(size)
<1> DEFINE s == SECTOR_SIZE_IN_BYTES
           c == Padded(MinOf(n, size - f))
<1>1. s \in Nat /\ s > 0 /\ n \in Nat /\ n % s = 0
  BY Sizes
<1>2. size - f \in Nat
  OBVIOUS
<1>3. /\ Padded(size) \in Nat /\ size <= Padded(size) /\ Padded(size) % s = 0
      /\ Padded(size - f) \in Nat /\ Padded(size - f) < (size - f) + s
      /\ Padded(size - f) % s = 0
  BY <1>2, Padding
<1>4. c \in Nat /\ c % s = 0
  <2>1. MinOf(n, size - f) \in Nat
    BY <1>1, <1>2 DEF MinOf
  <2>2. QED
    BY <2>1, Padding
<1>5. PICK a \in Nat : f = s * a
  BY Multiples
<1>6. PICK b \in Nat : c = s * b
  BY <1>4, Multiples
<1>7. PICK d \in Nat : Padded(size) = s * d
  BY <1>3, Multiples
<1>8. (f + c) % s = 0
  <2>1. f + c = s * (a + b) /\ a + b \in Nat
    <3> HIDE DEF s, c
    <3>1. QED
      BY <1>1, <1>5, <1>6
  <2>2. QED
    BY <2>1, Multiples
<1>9. f + c <= Padded(size)
  <2>1. CASE n < size - f
    <3>1. c = n
      BY <1>1, <2>1 DEF MinOf, Padded
    <3> HIDE DEF c, s
    <3>2. QED
      BY <1>1, <1>3, <2>1, <3>1
  <2>2. CASE ~(n < size - f)
    <3>1. c = Padded(size - f)
      BY <2>2 DEF MinOf
    <3>2. c < (size - f) + s
      BY <1>3, <3>1
    <3> HIDE DEF c, s
    <3>3. s * (a + b) < s * d + s
      BY <1>1, <1>2, <1>3, <1>4, <1>5, <1>6, <1>7, <3>2
    <3>4. a + b <= d
      <4>1. a + b >= d + 1 => s * (a + b) >= s * (d + 1)
        BY <1>1
      <4>2. s * (d + 1) = s * d + s
        BY <1>1
      <4>3. QED
        BY <1>1, <3>3, <4>1, <4>2
    <3>5. s * (a + b) <= s * d
      BY <1>1, <3>4
    <3>6. QED
      BY <1>1, <1>5, <1>6, <1>7, <3>5
  <2>3. QED
    BY <2>1, <2>2
<1>10. QED
  BY <1>4, <1>8, <1>9

\* One turn of the loop of fh_send_rawmode_image.
LEMMA SendImageStep ==
  ASSUME FirehoseInv, SendImage
  PROVE  FirehoseInv'
<1>1. /\ pc = "image" /\ UNCHANGED <<plan, at, group, payload, sk, reader, usb>>
      /\ Now' = Now /\ Run' = Run
  BY DEF SendImage, Now, Run
<1>2. /\ Quiet /\ dev.mode = "raw" /\ dev.run = Run /\ dev.got = filesend
      /\ filesend < Run.size /\ filesend % SECTOR_SIZE_IN_BYTES = 0
  BY <1>1 DEF FirehoseInv, Turns
<1>3. /\ filesend \in Nat /\ payload \in Payloads /\ dev \in Device
      /\ sk \in Seq(Answer) /\ usb \in Seq(Message)
  BY DEF FirehoseInv, FirehoseTypes
<1>4. Run.size \in Nat /\ Now.type = "program" /\ group < Len(Now.runs)
  BY <1>1, AtWork DEF FirehoseInv, Working
<1>5. CASE pc' = "failed" /\ UNCHANGED <<filesend, dev, flash>>
  BY <1>1, <1>3, <1>5, FailStep
<1>6. CASE /\ filesend' = filesend + Chunk
           /\ dev' = [dev EXCEPT !.got = @ + Chunk]
           /\ pc' = IF filesend' >= Run.size THEN "written" ELSE "image"
  <2>1. /\ Chunk \in Nat /\ (filesend + Chunk) % SECTOR_SIZE_IN_BYTES = 0
        /\ filesend + Chunk <= Padded(Run.size)
    BY <1>2, <1>3, <1>4, ChunkFits DEF Chunk
  <2> HIDE DEF Chunk
  <2>2. /\ dev' \in Device /\ dev'.mode = "raw" /\ dev'.run = Run /\ dev'.limit = dev.limit
        /\ dev'.got = filesend + Chunk
    BY <1>2, <1>3, <1>6, <2>1 DEF Device
  <2>3. filesend' \in Nat /\ filesend' = filesend + Chunk
    BY <1>3, <1>6, <2>1
  <2>4. Expected' = Padded(Run.size)
    BY <2>2 DEF Expected
  <2>5. pc' = "written" \/ (pc' = "image" /\ filesend' < Run.size)
    BY <1>4, <1>6, <2>3
  <2>6. Quiet' /\ Single'
    BY <1>1, <1>2 DEF Quiet, Single
  <2>7. FirehoseTypes'
    BY <1>1, <2>2, <2>3, <2>5 DEF FirehoseInv, FirehoseTypes, Phases
  <2>8. Turns'
    BY <1>1, <2>1, <2>2, <2>3, <2>5, <2>6 DEF Turns
  <2>9. Working'
    BY <1>1, <1>4, <2>1, <2>2, <2>4, <2>5 DEF FirehoseInv, Working
  <2>10. QED
    BY <2>7, <2>8, <2>9 DEF FirehoseInv
<1>7. QED
  BY <1>2, <1>5, <1>6 DEF SendImage

\* What the module answers is added to nothing.
LEMMA AnswerAlone ==
  ASSUME NEW r \in Answer, usb \in Seq(Message), usb' = Append(usb, r), sk' = sk
  PROVE  /\ usb' \in Seq(Message)
         /\ Quiet => /\ Single' /\ Len(sk') = 0
                     /\ \A i \in Responses(usb') : usb'[i] = r
<1>1. r \in Message /\ r.kind = "response"
  BY Messages
<1>2. /\ usb' \in Seq(Message) /\ Responses(usb') = Responses(usb) \cup {Len(usb) + 1}
      /\ usb'[Len(usb) + 1] = r
  BY <1>1, Added
<1>3. QED
  BY <1>2 DEF Quiet, Single

\* The module executes a command, or refuses it.
LEMMA ExecuteStep ==
  ASSUME FirehoseInv, Execute
  PROVE  FirehoseInv'
<1>1. /\ UNCHANGED <<plan, pc, at, group, payload, filesend, sk, reader>> /\ dev.mode = "cmd"
      /\ Now' = Now /\ Run' = Run
  BY DEF Execute, host, Now, Run
<1>2. pc \notin {"drain", "send", "again", "image", "written"}
  BY <1>1 DEF FirehoseInv, Turns
<1>3. dev \in Device /\ usb \in Seq(Message) /\ dev.limit \in Payloads /\ dev.run.size \in Nat
      /\ payload \in Nat /\ dev.limit \in Nat
  BY Sizes DEF FirehoseInv, FirehoseTypes, Device, RunRecord
<1>4. PICK r \in Answer :
        /\ usb' = Append(usb, r) /\ r.max \in {0, dev.limit}
        /\ r.raw <=> dev'.mode = "raw"
        /\ r.ack /\ dev.type = "configure" => payload <= dev.limit
        /\ dev' \in Device /\ dev'.limit = dev.limit /\ dev'.run = dev.run
        /\ dev'.mode \in {"idle", "raw"}
        /\ dev'.mode = "raw" => dev.type = "program" /\ dev'.got = 0
  <2>1. CASE /\ ~(dev.type = "configure" /\ payload > dev.limit)
             /\ dev' = [dev EXCEPT !.got = 0, !.mode = IF dev.type = "program" THEN "raw"
                                                       ELSE "idle"]
             /\ Say(Response(TRUE, dev.type = "program", 0))
    <3> DEFINE r == Response(TRUE, dev.type = "program", 0)
    <3>1. /\ r \in Answer /\ r.max = 0 /\ r.ack /\ (r.raw <=> dev.type = "program")
      BY DEF Response, Answer
    <3>2. /\ dev' \in Device /\ dev'.limit = dev.limit /\ dev'.run = dev.run /\ dev'.got = 0
          /\ dev'.mode \in {"idle", "raw"} /\ (dev'.mode = "raw" <=> dev.type = "program")
      BY <1>3, <2>1 DEF Device
    <3>3. usb' = Append(usb, r)
      BY <2>1 DEF Say
    <3>4. dev.type = "configure" => payload <= dev.limit
      BY <1>3, <2>1
    <3> HIDE DEF r
    <3>5. QED
      BY <3>1, <3>2, <3>3, <3>4
  <2>2. CASE /\ dev' = [dev EXCEPT !.mode = "idle"]
             /\ Say(Response(FALSE, FALSE, IF dev.type = "configure" THEN dev.limit ELSE 0))
    <3> DEFINE r == Response(FALSE, FALSE, IF dev.type = "configure" THEN dev.limit ELSE 0)
    <3>1. /\ r \in Answer /\ r.max \in {0, dev.limit} /\ ~r.ack /\ ~r.raw
      BY <1>3 DEF Response, Answer, Payloads
    <3>2. /\ dev' \in Device /\ dev'.limit = dev.limit /\ dev'.run = dev.run /\ dev'.mode = "idle"
      BY <1>3, <2>2 DEF Device
    <3>3. usb' = Append(usb, r)
      BY <2>2 DEF Say
    <3> HIDE DEF r
    <3>4. QED
      BY <3>1, <3>2, <3>3
  <2>3. QED
    BY <2>1, <2>2 DEF Execute
<1>5. /\ usb' \in Seq(Message)
      /\ Quiet => /\ Single' /\ Len(sk') = 0
                  /\ \A i \in Responses(usb') : usb'[i] = r
  BY <1>1, <1>3, <1>4, AnswerAlone
<1>6. FirehoseTypes'
  BY <1>1, <1>4, <1>5 DEF FirehoseInv, FirehoseTypes
<1>7. Working'
  <2>1. dev'.mode = "raw" => dev'.got <= Expected'
    <3>1. Padded(dev.run.size) \in Nat
      BY <1>3, Padding
    <3>2. QED
      BY <1>4, <3>1 DEF Expected
  <2>2. QED
    BY <1>1, <1>2, <1>4, <2>1 DEF FirehoseInv, Working
<1>8. Turns'
  <2>1. CASE pc \in {"answer", "answer2"}
    <3>1. Quiet /\ dev.type = Now.type /\ dev.run = Run
      BY <1>1, <2>1 DEF FirehoseInv, Turns
    <3>2. Agrees(r, dev', Now', payload')
      BY <1>1, <1>4, <3>1 DEF Agrees
    <3>3. Single' /\ Sounds'
      BY <1>5, <3>1, <3>2 DEF Sounds, Sound
    <3>4. QED
      BY <1>1, <1>4, <2>1, <3>1, <3>3 DEF Turns
  <2>2. CASE pc \notin {"answer", "answer2"}
    BY <1>1, <1>2, <2>2 DEF Turns
  <2>3. QED
    BY <2>1, <2>2
<1>9. QED
  BY <1>6, <1>7, <1>8 DEF FirehoseInv

\* The last sector announced has come in.
LEMMA StoreStep ==
  ASSUME FirehoseInv, Store
  PROVE  FirehoseInv'
<1>1. /\ UNCHANGED <<plan, pc, at, group, payload, filesend, sk, reader>> /\ dev.mode = "raw"
      /\ Now' = Now /\ Run' = Run /\ dev.got >= Expected
      /\ dev' = [dev EXCEPT !.mode = "idle", !.got = 0]
  BY DEF Store, host, Now, Run
<1>2. dev \in Device /\ usb \in Seq(Message) /\ dev.run.size \in Nat
  BY DEF FirehoseInv, FirehoseTypes, Device, RunRecord
<1>3. dev' \in Device /\ dev'.mode = "idle" /\ dev'.limit = dev.limit
  BY <1>1, <1>2 DEF Device
<1>4. Expected \in Nat /\ Expected >= dev.run.size
  BY <1>2, Padding DEF Expected
<1>5. pc \notin {"drain", "send", "again", "answer", "answer2", "image"}
  <2>1. pc \notin {"drain", "send", "again"}
    BY <1>1 DEF FirehoseInv, Turns
  <2>2. pc \notin {"answer", "answer2"}
    <3> SUFFICES ASSUME pc \in {"answer", "answer2"} PROVE FALSE
      OBVIOUS
    <3>1. Now.type = "program" /\ dev.run = Run /\ dev.got = 0 /\ group < Len(Now.runs)
      BY <1>1 DEF FirehoseInv, Turns, Working
    <3>2. Run.size > 0
      BY <3>1, AtWork
    <3>3. QED
      BY <1>1, <1>2, <1>4, <3>1, <3>2
  <2>3. pc # "image"
    <3> SUFFICES ASSUME pc = "image" PROVE FALSE
      OBVIOUS
    <3>1. dev.run = Run /\ dev.got = filesend /\ filesend < Run.size /\ filesend \in Nat
      BY DEF FirehoseInv, Turns, FirehoseTypes
    <3>2. QED
      BY <1>1, <1>2, <1>4, <3>1
  <2>4. QED
    BY <2>1, <2>2, <2>3
<1>6. PICK r \in Answer : usb' = Append(usb, r)
  <2>1. Response(TRUE, FALSE, 0) \in Answer /\ Response(FALSE, FALSE, 0) \in Answer
    BY DEF Response, Answer
  <2>2. QED
    BY <2>1 DEF Store, Say
<1>7. usb' \in Seq(Message) /\ (Quiet => Single')
  BY <1>1, <1>2, <1>6, AnswerAlone
<1>8. FirehoseTypes'
  BY <1>1, <1>3, <1>7 DEF FirehoseInv, FirehoseTypes
<1>9. Turns'
  BY <1>1, <1>3, <1>5, <1>7 DEF FirehoseInv, Turns
<1>10. Working'
  BY <1>1, <1>3 DEF FirehoseInv, Working
<1>11. QED
  BY <1>8, <1>9, <1>10 DEF FirehoseInv

\* Every step of the two threads and of the module keeps the invariant.
LEMMA WorkStep ==
  ASSUME FirehoseInv, Work
  PROVE  FirehoseInv'
BY DrainStep, SkipStep, SendStep, ReceiveStep, SendImageStep, WrittenStep, TimedOutStep,
   ExecuteStep, StoreStep, ChatterStep, SecondAnswerStep, PowerCutStep, ReadUsbStep DEF Work

-----------------------------------------------------------------------------
(* The plan: what the loops of firehose_main and of fh_process_sparse_program *)
(* compute, for every table and every image.                                  *)

\* A set of numbers has a least one.
LEMMA Least ==
  ASSUME NEW T \in SUBSET Nat, T # {}
  PROVE  \E x \in T : \A y \in T : ~(y < x)
<1> DEFINE R == OpToRel(<, Nat)
<1>1. IsWellFoundedOn(R, Nat)
  BY NatLessThanWellFounded, Zenon
<1>2. \A x, y \in Nat : <<y, x>> \in R <=> y < x
  BY DEF OpToRel
<1> HIDE DEF R
<1>3. PICK x \in T : \A y \in T : ~(<<y, x>> \in R)
  BY <1>1, WFMin, Zenon
<1>4. QED
  BY <1>2, <1>3, Zenon

\* Induction.
LEMMA Induct ==
  ASSUME NEW T \in SUBSET Nat, 0 \in T, \A n \in T : n + 1 \in T
  PROVE  T = Nat
<1>1. SUFFICES ASSUME Nat \ T # {} PROVE FALSE
  OBVIOUS
<1>2. PICK x \in Nat \ T : \A y \in Nat \ T : ~(y < x)
  BY <1>1, Least
<1>3. x \in Nat /\ x # 0
  BY <1>2
<1>4. x - 1 \in Nat /\ x - 1 < x /\ (x - 1) + 1 = x
  BY <1>3
<1>5. QED
  BY <1>2, <1>3, <1>4

\* A loop of N turns, each computing its value from the one before.
IsTurn(turn, V, N) == turn \in [V \X (1 .. N) -> V]
IsLoop(f, V, N, start, turn) ==
  /\ f \in [0 .. N -> V]
  /\ f[0] = start /\ \A i \in 1 .. N : f[i] = turn[<<f[i - 1], i>>]

\* A loop over 1..N that keeps to V has the function of its states after each turn.
LEMMA Loop ==
  ASSUME NEW V, NEW N \in Nat, NEW start \in V, NEW turn, IsTurn(turn, V, N)
  PROVE  \E f : IsLoop(f, V, N, start, turn)
<1>0. turn \in [V \X (1 .. N) -> V]
  BY DEF IsTurn
<1> DEFINE P(n) == \E f \in [0 .. n -> V] :
                     f[0] = start /\ \A i \in 1 .. n : f[i] = turn[<<f[i - 1], i>>]
           T == {n \in Nat : n <= N => P(n)}
<1>1. 0 \in T
  <2> DEFINE f == [i \in 0 .. 0 |-> start]
  <2>1. f \in [0 .. 0 -> V] /\ f[0] = start /\ \A i \in 1 .. 0 : f[i] = turn[<<f[i - 1], i>>]
    OBVIOUS
  <2> HIDE DEF f
  <2>2. P(0)
    BY <2>1, Zenon
  <2>3. QED
    BY <2>2
<1>2. ASSUME NEW n \in T PROVE n + 1 \in T
  <2>1. n \in Nat /\ n + 1 \in Nat
    BY <1>2
  <2>2. ASSUME n + 1 <= N PROVE P(n + 1)
    <3>1. PICK f \in [0 .. n -> V] :
            f[0] = start /\ \A i \in 1 .. n : f[i] = turn[<<f[i - 1], i>>]
      BY <1>2, <2>1, <2>2
    <3> DEFINE v == turn[<<f[n], n + 1>>]
               g == [i \in 0 .. n + 1 |-> IF i <= n THEN f[i] ELSE v]
    <3>2. v \in V
      <4>1. n \in 0 .. n /\ n + 1 \in 1 .. N
        BY <2>1, <2>2
      <4>2. <<f[n], n + 1>> \in V \X (1 .. N)
        BY <3>1, <4>1
      <4>3. QED
        BY <1>0, <4>2
    <3> HIDE DEF v
    <3>3. g \in [0 .. n + 1 -> V]
      <4>1. \A i \in 0 .. n + 1 : i <= n => i \in 0 .. n
        BY <2>1
      <4>2. QED
        BY <3>1, <3>2, <4>1
    <3>4. \A i \in 0 .. n : g[i] = f[i] /\ i \in 0 .. n + 1
      BY <2>1
    <3>5. g[n + 1] = v
      BY <2>1
    <3> HIDE DEF g
    <3>6. ASSUME NEW i \in 1 .. n + 1 PROVE g[i] = turn[<<g[i - 1], i>>]
      <4>1. CASE i = n + 1
        <5>1. i - 1 = n /\ n \in 0 .. n
          BY <2>1, <4>1
        <5>2. QED
          BY <3>4, <3>5, <4>1, <5>1 DEF v
      <4>2. CASE i # n + 1
        <5>1. i \in 1 .. n /\ i \in 0 .. n /\ i - 1 \in 0 .. n
          BY <2>1, <4>2
        <5>2. QED
          BY <3>1, <3>4, <5>1
      <4>3. QED
        BY <4>1, <4>2
    <3>7. g[0] = start
      BY <2>1, <3>1, <3>4
    <3>8. QED
      BY <3>3, <3>6, <3>7, Zenon
  <2>3. QED
    BY <2>1, <2>2
<1> HIDE DEF P
<1>3. T = Nat
  BY <1>1, <1>2, Induct
<1>4. P(N)
  BY <1>3
<1>5. QED
  BY <1>4 DEF P, IsLoop

\* A loop over the table, turn by turn.
LEMMA OnlyLoop ==
  ASSUME NEW t \in Seq(Entry), NEW C
  PROVE  \E g \in [0 .. Len(t) -> Seq(Entry)] :
           /\ g[0] = <<>>
           /\ \A i \in 1 .. Len(t) :
                g[i] = IF t[i] \in C THEN Append(g[i - 1], t[i]) ELSE g[i - 1]
           /\ Only(t, C) = g[Len(t)]
<1> DEFINE N == Len(t)
           V == Seq(Entry)
           turn == [p \in V \X (1 .. N) |->
                      IF t[p[2]] \in C THEN Append(p[1], t[p[2]]) ELSE p[1]]
           F(g) == [i \in 0 .. N |-> IF i = 0 THEN <<>>
                                     ELSE IF t[i] \in C THEN Append(g[i - 1], t[i]) ELSE g[i - 1]]
<1>1. N \in Nat /\ <<>> \in V
  OBVIOUS
<1>2. turn \in [V \X (1 .. N) -> V]
  <2>1. ASSUME NEW p \in V \X (1 .. N)
        PROVE  (IF t[p[2]] \in C THEN Append(p[1], t[p[2]]) ELSE p[1]) \in V
    <3>1. p[1] \in Seq(Entry) /\ p[2] \in 1 .. Len(t)
      BY <2>1
    <3>2. t[p[2]] \in Entry
      BY <3>1
    <3> HIDE DEF Entry
    <3>3. Append(p[1], t[p[2]]) \in Seq(Entry)
      BY <3>1, <3>2
    <3>4. QED
      BY <3>1, <3>3
  <2>2. QED
    BY <2>1
<1>3. \A v \in V, i \in 1 .. N :
        turn[<<v, i>>] = IF t[i] \in C THEN Append(v, t[i]) ELSE v
  OBVIOUS
<1> DEFINE none == <<>>
<1>0. none \in V
  BY <1>1
<1> HIDE DEF turn, V, N, none
<1>4. PICK f \in [0 .. N -> V] : f[0] = none /\ \A i \in 1 .. N : f[i] = turn[<<f[i - 1], i>>]
  <2>1. IsTurn(turn, V, N)
    BY <1>2 DEF IsTurn
  <2>2. \E f : IsLoop(f, V, N, none, turn)
    BY <1>0, <1>1, <2>1, Loop
  <2>3. QED
    BY <2>2 DEF IsLoop
<1>5. \A i \in 1 .. N : i - 1 \in 0 .. N /\ f[i - 1] \in V
  BY <1>1, <1>4
<1>6. \A i \in 1 .. N : f[i] = IF t[i] \in C THEN Append(f[i - 1], t[i]) ELSE f[i - 1]
  BY <1>3, <1>4, <1>5
<1>7. f = F(f)
  <2>1. \A i \in 0 .. N : i = 0 \/ i \in 1 .. N
    BY <1>1
  <2>2. \A i \in 0 .. N : f[i] = F(f)[i]
    BY <1>4, <1>6, <2>1 DEF none
  <2>3. QED
    BY <1>4, <2>2
<1> DEFINE g == CHOOSE h : h = F(h)
<1>8. g = F(g)
  BY <1>7, Zenon
<1>9. Only(t, C) = g[N]
  BY DEF Only, N
<1> HIDE DEF g
<1>10. g[0] = <<>>
  BY <1>1, <1>8
<1>11. \A i \in 1 .. N : g[i] = IF t[i] \in C THEN Append(g[i - 1], t[i]) ELSE g[i - 1]
  <2>1. \A i \in 1 .. N : i # 0 /\ i \in 0 .. N
    BY <1>1
  <2>2. QED
    BY <1>8, <2>1
<1>12. g \in [0 .. N -> V]
  <2> DEFINE T == {i \in Nat : i <= N => g[i] \in V}
  <2>1. 0 \in T
    BY <1>1, <1>10
  <2>2. ASSUME NEW i \in T PROVE i + 1 \in T
    <3>1. i \in Nat /\ (i + 1) - 1 = i
      BY <2>2
    <3>2. ASSUME i + 1 <= N PROVE g[i + 1] \in V
      <4>1. g[i] \in V /\ i + 1 \in 1 .. N
        BY <1>1, <2>2, <3>1, <3>2
      <4>2. g[i + 1] = turn[<<g[i], i + 1>>]
        BY <1>3, <1>11, <3>1, <4>1
      <4>3. QED
        BY <1>2, <4>1, <4>2
    <3>3. QED
      BY <3>1, <3>2
  <2>3. T = Nat
    <3> HIDE DEF T
    <3>1. T \in SUBSET Nat
      BY DEF T
    <3>2. QED
      BY <2>1, <2>2, <3>1, Induct
  <2>4. \A i \in 0 .. N : g[i] \in V
    BY <1>1, <2>3
  <2>5. DOMAIN g = 0 .. N
    BY <1>8
  <2>6. g = [i \in 0 .. N |-> g[i]]
    BY <1>8
  <2>7. QED
    BY <2>4, <2>6
<1>13. QED
  BY <1>9, <1>10, <1>11, <1>12, Zenon DEF N, V

\* s holds the commands of C among the first n of t, in their order; h says which.
Picks(h, s, t, n, C) ==
  /\ s \in Seq(Entry) /\ h \in [1 .. Len(s) -> 1 .. n]
  /\ \A k \in 1 .. Len(s) : s[k] = t[h[k]] /\ s[k] \in C
  /\ \A k, l \in 1 .. Len(s) : k < l => h[k] < h[l]
  /\ \A i \in 1 .. n : t[i] \in C => \E k \in 1 .. Len(s) : h[k] = i

\* One more turn of the loop.
LEMMA PickMore ==
  ASSUME NEW t \in Seq(Entry), NEW C, NEW n \in Nat, n + 1 \in 1 .. Len(t), NEW s, NEW h,
         Picks(h, s, t, n, C)
  PROVE  \E x : Picks(x, IF t[n + 1] \in C THEN Append(s, t[n + 1]) ELSE s, t, n + 1, C)
<1>1. /\ s \in Seq(Entry) /\ h \in [1 .. Len(s) -> 1 .. n] /\ Len(s) \in Nat
      /\ \A k \in 1 .. Len(s) : s[k] = t[h[k]] /\ s[k] \in C /\ h[k] \in 1 .. n
      /\ \A k, l \in 1 .. Len(s) : k < l => h[k] < h[l]
      /\ \A i \in 1 .. n : t[i] \in C => \E k \in 1 .. Len(s) : h[k] = i
  BY DEF Picks
<1>2. \A i : i \in 1 .. n + 1 <=> i \in 1 .. n \/ i = n + 1
  OBVIOUS
<1>3. CASE t[n + 1] \notin C
  <2>1. h \in [1 .. Len(s) -> 1 .. n + 1]
    BY <1>1, <1>2
  <2>2. \A i \in 1 .. n + 1 : t[i] \in C => \E k \in 1 .. Len(s) : h[k] = i
    BY <1>1, <1>2, <1>3
  <2>3. Picks(h, s, t, n + 1, C)
    BY <1>1, <2>1, <2>2 DEF Picks
  <2>4. QED
    BY <1>3, <2>3
<1>4. CASE t[n + 1] \in C
  <2> DEFINE u == Append(s, t[n + 1])
             x == [k \in 1 .. Len(s) + 1 |-> IF k <= Len(s) THEN h[k] ELSE n + 1]
  <2>1. t[n + 1] \in Entry
    OBVIOUS
  <2> HIDE DEF Entry
  <2>2. /\ u \in Seq(Entry) /\ Len(u) = Len(s) + 1 /\ u[Len(s) + 1] = t[n + 1]
        /\ \A k \in 1 .. Len(s) : u[k] = s[k]
    BY <1>1, <2>1
  <2>3. \A k : k \in 1 .. Len(s) + 1 <=> k \in 1 .. Len(s) \/ k = Len(s) + 1
    BY <1>1
  <2>4. /\ \A k \in 1 .. Len(s) : x[k] = h[k]
        /\ x[Len(s) + 1] = n + 1
    BY <1>1
  <2>5. x \in [1 .. Len(s) + 1 -> 1 .. n + 1]
    BY <1>1, <1>2, <2>3
  <2> HIDE DEF u, x
  <2>6. \A k \in 1 .. Len(u) : u[k] = t[x[k]] /\ u[k] \in C
    BY <1>1, <1>4, <2>2, <2>3, <2>4
  <2>7. ASSUME NEW k \in 1 .. Len(u), NEW l \in 1 .. Len(u), k < l PROVE x[k] < x[l]
    <3>1. k \in 1 .. Len(s)
      BY <1>1, <2>2, <2>7
    <3>2. CASE l \in 1 .. Len(s)
      BY <1>1, <2>4, <2>7, <3>1, <3>2
    <3>3. CASE l = Len(s) + 1
      <4>1. x[k] \in 1 .. n /\ x[l] = n + 1
        BY <1>1, <2>4, <3>1, <3>3
      <4>2. QED
        BY <4>1
    <3>4. QED
      BY <2>2, <2>3, <3>2, <3>3
  <2>8. ASSUME NEW i \in 1 .. n + 1, t[i] \in C PROVE \E k \in 1 .. Len(u) : x[k] = i
    <3>1. CASE i = n + 1
      <4>1. Len(s) + 1 \in 1 .. Len(u)
        BY <2>2, <2>3
      <4>2. QED
        BY <2>4, <3>1, <4>1
    <3>2. CASE i \in 1 .. n
      <4>1. PICK k \in 1 .. Len(s) : h[k] = i
        BY <1>1, <2>8, <3>2
      <4>2. k \in 1 .. Len(u)
        BY <2>2, <2>3
      <4>3. QED
        BY <2>4, <4>1, <4>2
    <3>3. QED
      BY <1>2, <3>1, <3>2
  <2>9. Picks(x, u, t, n + 1, C)
    BY <2>2, <2>5, <2>6, <2>7, <2>8 DEF Picks
  <2>10. QED
    BY <1>4, <2>9 DEF u
<1>5. QED
  BY <1>3, <1>4

\* A loop over the table finds the commands it looks for, each once and in their order.
LEMMA OnlyPicks ==
  ASSUME NEW t \in Seq(Entry), NEW C
  PROVE  \E h : Picks(h, Only(t, C), t, Len(t), C)
<1>1. PICK g \in [0 .. Len(t) -> Seq(Entry)] :
        /\ g[0] = <<>>
        /\ \A i \in 1 .. Len(t) : g[i] = IF t[i] \in C THEN Append(g[i - 1], t[i]) ELSE g[i - 1]
        /\ Only(t, C) = g[Len(t)]
  BY OnlyLoop
<1>2. Len(t) \in Nat
  OBVIOUS
<1> DEFINE T == {n \in Nat : n <= Len(t) => \E h : Picks(h, g[n], t, n, C)}
<1>3. 0 \in T
  <2> DEFINE h == [k \in 1 .. 0 |-> 0]
  <2>1. h \in [1 .. 0 -> 1 .. 0] /\ g[0] \in Seq(Entry) /\ Len(g[0]) = 0
    BY <1>1
  <2> HIDE DEF h
  <2>2. Picks(h, g[0], t, 0, C)
    BY <2>1 DEF Picks
  <2>3. QED
    BY <2>2
<1>4. ASSUME NEW n \in T PROVE n + 1 \in T
  <2>1. n \in Nat
    BY <1>4
  <2>2. ASSUME n + 1 <= Len(t) PROVE \E h : Picks(h, g[n + 1], t, n + 1, C)
    <3>1. n + 1 \in 1 .. Len(t) /\ n <= Len(t) /\ (n + 1) - 1 = n
      BY <1>2, <2>1, <2>2
    <3>2. PICK h : Picks(h, g[n], t, n, C)
      BY <1>4, <3>1
    <3>3. g[n + 1] = IF t[n + 1] \in C THEN Append(g[n], t[n + 1]) ELSE g[n]
      BY <1>1, <3>1
    <3>4. QED
      BY <2>1, <3>1, <3>2, <3>3, PickMore
  <2>3. QED
    BY <2>1, <2>2
<1>5. T = Nat
  <2> HIDE DEF T
  <2>1. T \in SUBSET Nat
    BY DEF T
  <2>2. QED
    BY <1>3, <1>4, <2>1, Induct
<1>6. QED
  BY <1>1, <1>2, <1>5

\* The totals of a run of chunks, and SparseImgData with every run of data not empty.
Totals == [total_sz : Nat, count : Nat, chunk_sz : Nat]
Scanned ==
  {s \in [last : {"none", "raw", "fill", "hole"}, acc : Totals,
          data : Seq(Totals), cac3 : Seq(Totals)] :
     /\ \A k \in 1 .. Len(s.data) : s.data[k].total_sz > 0
     /\ IsData(s.last) => s.acc.total_sz > 0}
ScanTurn(s, c) ==
  [(IF IsData(c.type) THEN AfterData(s, c) ELSE AfterHole(s, c)) EXCEPT !.last = c.type]

\* A chunk of data is not empty.
LEMMA DataOfChunk ==
  ASSUME NEW c \in SparseChunk
  PROVE  DataOf(c) \in Nat /\ (IsData(c.type) => DataOf(c) > 0)
<1>1. \A a, b \in Nat : a > 0 /\ b > 0 => a * b \in Nat /\ a * b > 0
  OBVIOUS
<1>2. c.type \in {"raw", "fill", "hole"} /\ c.chunk_sz \in Nat /\ c.chunk_sz > 0
  BY DEF SparseChunk
<1>3. /\ BlockSectors \in Nat /\ BlockSectors > 0
      /\ SECTOR_SIZE_IN_BYTES \in Nat /\ SECTOR_SIZE_IN_BYTES > 0
  BY SparseAssumption
<1>4. c.chunk_sz * BlockSectors \in Nat /\ c.chunk_sz * BlockSectors > 0
  BY <1>1, <1>2, <1>3
<1>5. /\ c.chunk_sz * BlockSectors * SECTOR_SIZE_IN_BYTES \in Nat
      /\ c.chunk_sz * BlockSectors * SECTOR_SIZE_IN_BYTES > 0
  BY <1>1, <1>3, <1>4
<1>6. CASE c.type = "raw"
  BY <1>5, <1>6 DEF DataOf
<1>7. CASE c.type = "fill"
  BY <1>7 DEF DataOf
<1>8. CASE c.type = "hole"
  BY <1>8 DEF DataOf, IsData
<1>9. QED
  BY <1>2, <1>6, <1>7, <1>8

\* One turn of the loop over the chunks.
LEMMA ScanTurnGood ==
  ASSUME NEW s \in Scanned, NEW c \in SparseChunk
  PROVE  LET n == ScanTurn(s, c)
             d == IsData(c.type)
         IN  /\ n \in Scanned /\ n.last = c.type
             /\ n.data = IF ~d /\ IsData(s.last) THEN Append(s.data, s.acc) ELSE s.data
             /\ n.cac3 = IF d /\ s.last = "hole" THEN Append(s.cac3, s.acc) ELSE s.cac3
             /\ n.acc = Add(IF d THEN IF s.last = "hole" THEN Zero ELSE s.acc
                            ELSE IF IsData(s.last) THEN Zero ELSE s.acc, c)
<1> DEFINE n == ScanTurn(s, c)
           d == IsData(c.type)
           from == IF d THEN IF s.last = "hole" THEN Zero ELSE s.acc
                   ELSE IF IsData(s.last) THEN Zero ELSE s.acc
<1>1. /\ s \in [last : {"none", "raw", "fill", "hole"}, acc : Totals,
                data : Seq(Totals), cac3 : Seq(Totals)]
      /\ \A k \in 1 .. Len(s.data) : s.data[k].total_sz > 0
      /\ IsData(s.last) => s.acc.total_sz > 0
  BY DEF Scanned
<1>2. s.acc \in Totals /\ s.data \in Seq(Totals) /\ s.cac3 \in Seq(Totals)
  BY <1>1
<1>3. c.type \in {"raw", "fill", "hole"} /\ c.chunk_sz \in Nat /\ DataOf(c) \in Nat
      /\ (d => DataOf(c) > 0)
  BY DataOfChunk DEF SparseChunk
<1>4. Zero \in Totals
  BY DEF Zero, Totals
<1>5. from \in Totals
  BY <1>2, <1>4
<1>6. Add(from, c) \in Totals /\ (d => Add(from, c).total_sz > 0)
  <2> HIDE DEF from
  <2>1. from.total_sz \in Nat /\ from.count \in Nat /\ from.chunk_sz \in Nat
    BY <1>5 DEF Totals
  <2>2. QED
    BY <1>3, <2>1 DEF Add, Totals
<1>7. CASE d
  <2>1. n = [s EXCEPT !.cac3 = IF s.last = "hole" THEN Append(@, s.acc) ELSE @,
                      !.acc = Add(IF s.last = "hole" THEN Zero ELSE @, c), !.last = c.type]
    BY <1>1, <1>7 DEF ScanTurn, AfterData
  <2>2. /\ n.last = c.type /\ n.data = s.data /\ n.acc = Add(from, c)
        /\ n.cac3 = IF s.last = "hole" THEN Append(s.cac3, s.acc) ELSE s.cac3
    BY <1>1, <1>7, <2>1
  <2>3. n.cac3 \in Seq(Totals)
    BY <1>2, <2>2
  <2>4. n \in [last : {"none", "raw", "fill", "hole"}, acc : Totals,
               data : Seq(Totals), cac3 : Seq(Totals)]
    <3>1. /\ IF s.last = "hole" THEN Append(s.cac3, s.acc) \in Seq(Totals) ELSE TRUE
          /\ Add(IF s.last = "hole" THEN Zero ELSE s.acc, c) \in Totals
      BY <1>2, <1>6, <1>7
    <3> HIDE DEF n, Totals
    <3>2. QED
      BY <1>1, <1>3, <2>1, <3>1
  <2>5. n \in Scanned
    BY <1>1, <1>6, <1>7, <2>2, <2>4 DEF Scanned
  <2>6. QED
    BY <1>7, <2>2, <2>5
<1>8. CASE ~d
  <2>1. n = [s EXCEPT !.data = IF IsData(s.last) THEN Append(@, s.acc) ELSE @,
                      !.acc = Add(IF IsData(s.last) THEN Zero ELSE @, c), !.last = c.type]
    BY <1>1, <1>8 DEF ScanTurn, AfterHole
  <2>2. /\ n.last = c.type /\ n.cac3 = s.cac3 /\ n.acc = Add(from, c)
        /\ n.data = IF IsData(s.last) THEN Append(s.data, s.acc) ELSE s.data
    BY <1>1, <1>8, <2>1
  <2>3. n \in [last : {"none", "raw", "fill", "hole"}, acc : Totals,
               data : Seq(Totals), cac3 : Seq(Totals)]
    <3>1. /\ IF IsData(s.last) THEN Append(s.data, s.acc) \in Seq(Totals) ELSE TRUE
          /\ Add(IF IsData(s.last) THEN Zero ELSE s.acc, c) \in Totals
      BY <1>2, <1>6, <1>8
    <3> HIDE DEF n, Totals
    <3>2. QED
      BY <1>1, <1>3, <2>1, <3>1
  <2>4. \A k \in 1 .. Len(n.data) : n.data[k].total_sz > 0
    <3>1. CASE IsData(s.last)
      <4>1. n.data = Append(s.data, s.acc) /\ s.acc.total_sz > 0
        BY <1>1, <2>2, <3>1
      <4> HIDE DEF n
      <4>2. QED
        BY <1>1, <1>2, <4>1
    <3>2. CASE ~IsData(s.last)
      <4>1. n.data = s.data
        BY <2>2, <3>2
      <4> HIDE DEF n
      <4>2. QED
        BY <1>1, <4>1
    <3>3. QED
      BY <3>1, <3>2
  <2>5. n \in Scanned
    BY <1>8, <2>2, <2>3, <2>4 DEF Scanned
  <2>6. QED
    BY <1>8, <2>2, <2>5
<1>9. QED
  BY <1>7, <1>8

\* The loop over the chunks, turn by turn.
LEMMA ScanLoop ==
  ASSUME NEW image \in Seq(SparseChunk)
  PROVE  \E a \in [0 .. Len(image) -> Scanned] :
           /\ a[0] = Blank
           /\ \A m \in 1 .. Len(image) : a[m] = ScanTurn(a[m - 1], image[m])
           /\ Scan(image) = CloseLast(a[Len(image)])
<1> DEFINE N == Len(image)
           turn == [p \in Scanned \X (1 .. N) |-> ScanTurn(p[1], image[p[2]])]
           F(g) == [m \in 0 .. N |-> IF m = 0 THEN Blank ELSE ScanTurn(g[m - 1], image[m])]
<1>1. N \in Nat
  OBVIOUS
<1>2. Blank \in Scanned
  <2>1. Zero \in Totals /\ <<>> \in Seq(Totals) /\ Len(<<>>) = 0
    BY DEF Zero, Totals
  <2> HIDE DEF Totals
  <2>2. QED
    BY <2>1 DEF Blank, Scanned, IsData
<1>3. \A m \in 1 .. N : image[m] \in SparseChunk
  OBVIOUS
<1>4. IsTurn(turn, Scanned, N)
  <2>1. ASSUME NEW p \in Scanned \X (1 .. N) PROVE ScanTurn(p[1], image[p[2]]) \in Scanned
    <3>1. p[1] \in Scanned /\ image[p[2]] \in SparseChunk
      BY <1>3, <2>1
    <3>2. QED
      BY <3>1, ScanTurnGood
  <2>2. QED
    BY <2>1 DEF IsTurn
<1>5. \A v \in Scanned, m \in 1 .. N : turn[<<v, m>>] = ScanTurn(v, image[m])
  OBVIOUS
<1> HIDE DEF turn, N
<1>6. PICK f : IsLoop(f, Scanned, N, Blank, turn)
  BY <1>1, <1>2, <1>4, Loop
<1>7. f \in [0 .. N -> Scanned] /\ f[0] = Blank /\ \A m \in 1 .. N : f[m] = turn[<<f[m - 1], m>>]
  BY <1>6 DEF IsLoop
<1>8. \A m \in 1 .. N : f[m] = ScanTurn(f[m - 1], image[m])
  <2>1. \A m \in 1 .. N : f[m - 1] \in Scanned
    BY <1>1, <1>7
  <2>2. QED
    BY <1>5, <1>7, <2>1
<1>9. f = F(f)
  <2>1. \A m \in 0 .. N : m = 0 \/ m \in 1 .. N
    BY <1>1
  <2>2. \A m \in 0 .. N : f[m] = F(f)[m]
    BY <1>7, <1>8, <2>1
  <2>3. QED
    BY <1>7, <2>2
<1> DEFINE g == CHOOSE h : h = F(h)
<1>10. g = F(g)
  BY <1>9, Zenon
<1>11. Scan(image) = CloseLast(g[N])
  BY DEF Scan, ScanTurn, N
<1> HIDE DEF g
<1>12. g[0] = Blank
  BY <1>1, <1>10
<1>13. \A m \in 1 .. N : g[m] = ScanTurn(g[m - 1], image[m])
  <2>1. \A m \in 1 .. N : m # 0 /\ m \in 0 .. N
    BY <1>1
  <2>2. QED
    BY <1>10, <2>1
<1> DEFINE T == {m \in Nat : m <= N => g[m] \in Scanned}
<1>14. 0 \in T
  BY <1>1, <1>2, <1>12
<1>15. ASSUME NEW m \in T PROVE m + 1 \in T
  <2>1. m \in Nat /\ (m + 1) - 1 = m
    BY <1>15
  <2>2. ASSUME m + 1 <= N PROVE g[m + 1] \in Scanned
    <3>1. g[m] \in Scanned /\ m + 1 \in 1 .. N
      BY <1>1, <1>15, <2>1, <2>2
    <3>2. image[m + 1] \in SparseChunk /\ g[m + 1] = ScanTurn(g[m], image[m + 1])
      BY <1>3, <1>13, <2>1, <3>1
    <3>3. QED
      BY <3>1, <3>2, ScanTurnGood
  <2>3. QED
    BY <2>1, <2>2
<1>16. T = Nat
  <2> HIDE DEF T
  <2>1. T \in SUBSET Nat
    BY DEF T
  <2>2. QED
    BY <1>14, <1>15, <2>1, Induct
<1>17. g \in [0 .. N -> Scanned]
  <2>1. \A m \in 0 .. N : g[m] \in Scanned
    BY <1>1, <1>16
  <2>2. g = [m \in 0 .. N |-> g[m]]
    BY <1>10
  <2>3. QED
    BY <2>1, <2>2
<1>18. QED
  BY <1>11, <1>12, <1>13, <1>17, Zenon DEF N

\* What the scan returns.
LEMMA ScanGood ==
  ASSUME NEW image \in Seq(SparseChunk)
  PROVE  LET s == Scan(image)
         IN  /\ s.data \in Seq(Totals) /\ s.cac3 \in Seq(Totals)
             /\ \A k \in 1 .. Len(s.data) : s.data[k].total_sz > 0
<1>1. PICK a \in [0 .. Len(image) -> Scanned] : Scan(image) = CloseLast(a[Len(image)])
  BY ScanLoop
<1> DEFINE z == a[Len(image)]
<1>2. z \in Scanned
  <2>1. Len(image) \in 0 .. Len(image)
    OBVIOUS
  <2>2. QED
    BY <1>1, <2>1
<1> HIDE DEF z
<1>3. /\ z \in [last : {"none", "raw", "fill", "hole"}, acc : Totals,
                data : Seq(Totals), cac3 : Seq(Totals)]
      /\ \A k \in 1 .. Len(z.data) : z.data[k].total_sz > 0
      /\ IsData(z.last) => z.acc.total_sz > 0
  BY <1>2 DEF Scanned
<1>4. z.acc \in Totals /\ z.data \in Seq(Totals) /\ z.cac3 \in Seq(Totals)
  BY <1>3
<1>5. CASE IsData(z.last)
  <2>1. CloseLast(z).cac3 = z.cac3 /\ CloseLast(z).data = Append(z.data, z.acc)
    BY <1>3, <1>5 DEF CloseLast
  <2>2. Append(z.data, z.acc) \in Seq(Totals)
    BY <1>4
  <2>3. \A k \in 1 .. Len(Append(z.data, z.acc)) : Append(z.data, z.acc)[k].total_sz > 0
    <3> HIDE DEF Totals
    <3>1. QED
      BY <1>3, <1>4, <1>5
  <2>4. QED
    BY <1>1, <1>4, <2>1, <2>2, <2>3 DEF z
<1>6. CASE ~IsData(z.last)
  <2>1. CloseLast(z) = z
    BY <1>6 DEF CloseLast
  <2>2. QED
    BY <1>1, <1>3, <1>4, <2>1 DEF z
<1>7. QED
  BY <1>5, <1>6

\* The hole behind run i of data, and run i itself, from the one before.
HoleAfter(s, i) == IF i \in DOMAIN s.cac3 THEN s.cac3[i] ELSE Zero
RunAt(s, prev, i) ==
  LET place == IF i = 1 THEN [start |-> 0, offset |-> FileHeader]
               ELSE NextRun(prev, s.data[i - 1], HoleAfter(s, i - 1))
  IN  [start |-> place.start, offset |-> place.offset, size |-> s.data[i].total_sz]

\* Sectors are counted in whole numbers.
LEMMA SectorsGood ==
  ASSUME NEW n \in Nat
  PROVE  Sectors(n) \in Nat
<1> DEFINE s == SECTOR_SIZE_IN_BYTES
           m == n + s - 1
<1>1. s \in Nat /\ s > 0 /\ m \in Nat
  BY SparseAssumption
<1>2. Sectors(n) = m \div s
  BY DEF Sectors
<1> HIDE DEF s, m
<1>3. PICK q \in Int, r \in Int : q = m \div s /\ r = m % s
  BY <1>1
<1>4. m = s * q + r /\ 0 <= r /\ r < s
  BY <1>1, <1>3
<1>5. q >= 0
  <2>1. q <= -1 => s * q <= -s
    BY <1>1, <1>3
  <2>2. QED
    BY <1>1, <1>3, <1>4, <2>1
<1>6. QED
  BY <1>2, <1>3, <1>5

\* A run has the size of the data that it gathers.
LEMMA RunAtGood ==
  ASSUME NEW s, s.data \in Seq(Totals), s.cac3 \in Seq(Totals), NEW prev \in RunRecord,
         NEW i \in 1 .. Len(s.data)
  PROVE  RunAt(s, prev, i) \in RunRecord /\ RunAt(s, prev, i).size = s.data[i].total_sz
<1>1. s.data[i] \in Totals
  OBVIOUS
<1>2. s.data[i].total_sz \in Nat
  BY <1>1 DEF Totals
<1>3. CASE i = 1
  <2>1. RunAt(s, prev, i) = [start |-> 0, offset |-> FileHeader, size |-> s.data[i].total_sz]
    BY <1>3 DEF RunAt
  <2>2. QED
    BY <1>2, <2>1, SparseAssumption DEF RunRecord
<1>4. CASE i # 1
  <2> DEFINE d == s.data[i - 1]
             h == HoleAfter(s, i - 1)
  <2>1. d \in Totals
    <3>1. i - 1 \in 1 .. Len(s.data)
      BY <1>4
    <3>2. QED
      BY <3>1
  <2>2. h \in Totals
    <3>1. Zero \in Totals
      BY DEF Zero, Totals
    <3>2. \A k \in DOMAIN s.cac3 : s.cac3[k] \in Totals
      OBVIOUS
    <3>3. QED
      BY <3>1, <3>2 DEF HoleAfter
  <2>3. RunAt(s, prev, i) = [start |-> NextRun(prev, d, h).start,
                             offset |-> NextRun(prev, d, h).offset,
                             size |-> s.data[i].total_sz]
    BY <1>4 DEF RunAt
  <2> HIDE DEF d, h
  <2>4. /\ d.total_sz \in Nat /\ d.count \in Nat /\ h.chunk_sz \in Nat /\ h.count \in Nat
        /\ ChunkHeader \in Nat /\ prev.start \in Nat /\ prev.offset \in Nat /\ prev.size \in Nat
    BY <2>1, <2>2, SparseAssumption DEF Totals, RunRecord
  <2>5. d.count * ChunkHeader \in Nat /\ h.count * ChunkHeader \in Nat /\ h.chunk_sz * 8 \in Nat
        /\ Sectors(prev.size) \in Nat
    <3>1. \A a, b \in Nat : a * b \in Nat
      OBVIOUS
    <3>2. Sectors(prev.size) \in Nat
      BY <2>4, SectorsGood
    <3>3. d.count * ChunkHeader \in Nat /\ h.count * ChunkHeader \in Nat
      BY <2>4, <3>1
    <3>4. h.chunk_sz * 8 \in Nat
      BY <2>4, <3>1
    <3>5. QED
      BY <3>2, <3>3, <3>4
  <2>6. NextRun(prev, d, h).start \in Nat /\ NextRun(prev, d, h).offset \in Nat
    <3>1. NextRun(prev, d, h).start = prev.start + Sectors(prev.size) + h.chunk_sz * 8
      BY DEF NextRun
    <3>2. NextRun(prev, d, h).offset =
            prev.offset + d.total_sz + d.count * ChunkHeader + h.count * ChunkHeader
      BY DEF NextRun
    <3>3. \A a, b, c \in Nat : a + b + c \in Nat
      OBVIOUS
    <3>4. \A a, b, c, x \in Nat : a + b + c + x \in Nat
      OBVIOUS
    <3> DEFINE dc == d.count * ChunkHeader
               hc == h.count * ChunkHeader
               hs == h.chunk_sz * 8
               k == Sectors(prev.size)
    <3>5. dc \in Nat /\ hc \in Nat /\ hs \in Nat /\ k \in Nat
      BY <2>5
    <3>6. /\ NextRun(prev, d, h).start = prev.start + k + hs
          /\ NextRun(prev, d, h).offset = prev.offset + d.total_sz + dc + hc
      BY <3>1, <3>2
    <3> HIDE DEF dc, hc, hs, k
    <3>7. prev.start + k + hs \in Nat
      BY <2>4, <3>3, <3>5, Zenon
    <3>8. prev.offset + d.total_sz + dc + hc \in Nat
      BY <2>4, <3>4, <3>5, Zenon
    <3>9. QED
      BY <3>6, <3>7, <3>8, Zenon
  <2>7. QED
    BY <1>2, <2>3, <2>6 DEF RunRecord
<1>5. QED
  BY <1>3, <1>4

\* The program commands of an image, one after the other.
LEMMA RunsLoop ==
  ASSUME NEW image \in Seq(SparseChunk)
  PROVE  LET s == Scan(image)
             r == Runs(image)
         IN  /\ r \in Seq(RunRecord) /\ Len(r) = Len(s.data)
             /\ \A i \in 1 .. Len(r) : r[i].size = s.data[i].total_sz /\ r[i].size > 0
             /\ \A i \in 1 .. Len(r) : r[i] = RunAt(s, r[i - 1], i)
<1> DEFINE s == Scan(image)
           N == Len(s.data)
           turn == [p \in RunRecord \X (1 .. N) |-> RunAt(s, p[1], p[2])]
           F(g) == [i \in 1 .. N |-> RunAt(s, g[i - 1], i)]
<1>1. /\ s.data \in Seq(Totals) /\ s.cac3 \in Seq(Totals) /\ N \in Nat
      /\ \A k \in 1 .. N : s.data[k].total_sz > 0
  BY ScanGood
<1> DEFINE g == CHOOSE x : x = F(x)
<1>2. Runs(image) = g
  BY DEF Runs, RunAt, HoleAfter
<1> HIDE DEF s, g
<1>3. IsTurn(turn, RunRecord, N)
  <2>1. ASSUME NEW p \in RunRecord \X (1 .. N) PROVE RunAt(s, p[1], p[2]) \in RunRecord
    <3>1. p[1] \in RunRecord /\ p[2] \in 1 .. Len(s.data)
      BY <2>1
    <3>2. QED
      BY <1>1, <3>1, RunAtGood
  <2>2. QED
    BY <2>1 DEF IsTurn
<1>4. \A v \in RunRecord, i \in 1 .. N : turn[<<v, i>>] = RunAt(s, v, i)
  OBVIOUS
<1>5. Whole(0) \in RunRecord
  BY DEF Whole, RunRecord
<1> HIDE DEF turn, N
<1>6. PICK f : IsLoop(f, RunRecord, N, Whole(0), turn)
  <2> DEFINE w == Whole(0)
  <2>1. w \in RunRecord
    BY <1>5
  <2> HIDE DEF w
  <2>2. \E f : IsLoop(f, RunRecord, N, w, turn)
    BY <1>1, <1>3, <2>1, Loop
  <2>3. QED
    BY <2>2 DEF w
<1>7. f \in [0 .. N -> RunRecord] /\ \A i \in 1 .. N : f[i] = turn[<<f[i - 1], i>>]
  BY <1>6 DEF IsLoop
<1> DEFINE e == [i \in 1 .. N |-> f[i]]
<1>8. ASSUME NEW i \in 1 .. N PROVE e[i] = RunAt(s, e[i - 1], i)
  <2>1. f[i - 1] \in RunRecord /\ e[i] = f[i]
    BY <1>1, <1>7
  <2>2. f[i] = RunAt(s, f[i - 1], i)
    BY <1>4, <1>7, <2>1
  <2>3. CASE i = 1
    BY <2>1, <2>2, <2>3 DEF RunAt
  <2>4. CASE i # 1
    <3>1. i - 1 \in 1 .. N
      BY <1>1, <2>4
    <3>2. e[i - 1] = f[i - 1]
      BY <3>1
    <3>3. QED
      BY <2>1, <2>2, <3>2
  <2>5. QED
    BY <2>3, <2>4
<1>9. e = F(e)
  <2>1. \A i \in 1 .. N : e[i] = F(e)[i]
    BY <1>8
  <2>2. QED
    BY <2>1
<1> HIDE DEF e
<1>10. g = F(g)
  BY <1>9, Zenon DEF g
<1>11. \A i \in 1 .. N : g[i] = RunAt(s, g[i - 1], i)
  BY <1>10
<1> DEFINE T == {i \in Nat : i + 1 <= N => g[i + 1] \in RunRecord}
<1>12. 0 \in T
  <2>1. ASSUME 1 <= N PROVE g[1] \in RunRecord
    <3>1. 1 \in 1 .. N
      BY <1>1, <2>1
    <3>2. g[1] = RunAt(s, Whole(0), 1)
      BY <1>11, <3>1 DEF RunAt
    <3>3. QED
      BY <1>1, <1>5, <3>1, <3>2, RunAtGood DEF N
  <2>2. QED
    BY <2>1
<1>13. ASSUME NEW i \in T PROVE i + 1 \in T
  <2>1. i \in Nat /\ ((i + 1) + 1) - 1 = i + 1
    BY <1>13
  <2>2. ASSUME (i + 1) + 1 <= N PROVE g[(i + 1) + 1] \in RunRecord
    <3>1. g[i + 1] \in RunRecord /\ (i + 1) + 1 \in 1 .. N
      BY <1>1, <1>13, <2>1, <2>2
    <3>2. g[(i + 1) + 1] = RunAt(s, g[i + 1], (i + 1) + 1)
      BY <1>11, <2>1, <3>1
    <3>3. QED
      BY <1>1, <3>1, <3>2, RunAtGood DEF N
  <2>3. QED
    BY <2>1, <2>2
<1>14. T = Nat
  <2> HIDE DEF T
  <2>1. T \in SUBSET Nat
    BY DEF T
  <2>2. QED
    BY <1>12, <1>13, <2>1, Induct
<1>15. \A i \in 1 .. N : g[i] \in RunRecord
  <2>1. ASSUME NEW i \in 1 .. N PROVE g[i] \in RunRecord
    <3>1. i - 1 \in Nat /\ (i - 1) + 1 = i /\ i <= N
      BY <1>1, <2>1
    <3>2. i - 1 \in T
      BY <1>14, <3>1
    <3>3. QED
      BY <3>1, <3>2
  <2>2. QED
    BY <2>1
<1>16. g \in Seq(RunRecord) /\ Len(g) = N
  <2>1. g = [i \in 1 .. N |-> g[i]]
    BY <1>10
  <2>2. g \in [1 .. N -> RunRecord]
    BY <1>15, <2>1
  <2>3. g \in Seq(RunRecord)
    BY <1>1, <2>2, SeqDef
  <2>4. QED
    BY <1>1, <2>2, <2>3
<1>17. ASSUME NEW i \in 1 .. N PROVE g[i].size = s.data[i].total_sz /\ g[i].size > 0
  <2>1. g[i].size = s.data[i].total_sz
    <3>1. g[i] = RunAt(s, g[i - 1], i)
      BY <1>11
    <3>2. QED
      BY <3>1 DEF RunAt
  <2>2. QED
    BY <1>1, <2>1
<1>18. QED
  BY <1>2, <1>11, <1>16, <1>17 DEF s, N

\* A command of a plan: of the table, or one of those firehose_main adds.
AnyCommand ==
  {c \in [type : CommandTypes, part : Partition, empty : BOOLEAN, size : Nat,
          image : Seq(SparseChunk)] :
     IF c.type = "program" THEN c.image = <<>> => c.size > 0 ELSE c.image = <<>>}

\* A plan so far: it begins with configure.
Begun(p) == p \in Seq(AnyCommand) /\ Len(p) \in Nat /\ Len(p) > 0 /\ p[1].type = "configure"

\* A plan that has begun may be continued.
LEMMA Begins ==
  ASSUME NEW p, Begun(p), NEW q \in Seq(AnyCommand)
  PROVE  Begun(p \o q)
<1>1. p \in Seq(AnyCommand) /\ Len(p) \in Nat /\ Len(p) > 0 /\ p[1].type = "configure"
  BY DEF Begun
<1>2. /\ p \o q \in Seq(AnyCommand) /\ Len(p \o q) = Len(p) + Len(q) /\ Len(q) \in Nat
  <2> HIDE DEF AnyCommand
  <2>1. QED
    BY <1>1, ConcatProperties
<1>3. (p \o q)[1] = p[1]
  <2>1. 1 \in 1 .. Len(p) + Len(q) /\ 1 <= Len(p)
    BY <1>1, <1>2
  <2> HIDE DEF AnyCommand
  <2>2. QED
    BY <1>1, <2>1, ConcatProperties
<1>4. QED
  BY <1>1, <1>2, <1>3 DEF Begun

\* The commands of the table that a loop takes.
LEMMA FromTable ==
  ASSUME NEW j \in Jobs, NEW C
  PROVE  /\ j.table \in Seq(Entry) /\ Only(j.table, C) \in Seq(AnyCommand)
         /\ \A k \in 1 .. Len(Only(j.table, C)) : Only(j.table, C)[k] \in C
<1>1. /\ j.table \in Seq(Entry)
      /\ \A i \in 1 .. Len(j.table) :
           IF j.table[i].type = "program"
           THEN j.table[i].image = <<>> => j.table[i].size > 0
           ELSE j.table[i].image = <<>>
  BY JobsAssumption
<1>2. \A i \in 1 .. Len(j.table) : j.table[i] \in AnyCommand
  <2>1. ASSUME NEW i \in 1 .. Len(j.table) PROVE j.table[i] \in AnyCommand
    <3>1. j.table[i] \in Entry
      BY <1>1, <2>1
    <3>2. QED
      BY <1>1, <2>1, <3>1 DEF Entry, AnyCommand, CommandTypes
  <2>2. QED
    BY <2>1
<1>3. PICK h : Picks(h, Only(j.table, C), j.table, Len(j.table), C)
  BY <1>1, OnlyPicks
<1> DEFINE s == Only(j.table, C)
<1>4. /\ s \in Seq(Entry) /\ Len(s) \in Nat /\ h \in [1 .. Len(s) -> 1 .. Len(j.table)]
      /\ \A k \in 1 .. Len(s) : s[k] = j.table[h[k]] /\ s[k] \in C
  BY <1>3 DEF Picks
<1> HIDE DEF s
<1>5. \A k \in 1 .. Len(s) : s[k] \in AnyCommand
  BY <1>2, <1>4
<1>6. s \in Seq(AnyCommand)
  <2> HIDE DEF AnyCommand, Entry
  <2>1. s = [k \in 1 .. Len(s) |-> s[k]]
    BY <1>4
  <2>2. s \in [1 .. Len(s) -> AnyCommand]
    BY <1>5, <2>1
  <2>3. QED
    BY <1>4, <2>2, SeqDef
<1>7. QED
  BY <1>1, <1>4, <1>6 DEF s

\* The commands firehose_main adds.
LEMMA Commands ==
  ASSUME NEW t \in {"configure", "setbootablestoragedrive", "reset"}
  PROVE  Command(t) \in AnyCommand /\ <<Command(t)>> \in Seq(AnyCommand) /\ Command(t).type = t
<1>1. Command(t) \in AnyCommand
  <2>1. <<>> \in Seq(SparseChunk)
    OBVIOUS
  <2>2. QED
    BY <2>1, Sizes DEF Command, AnyCommand, CommandTypes
<1>2. QED
  BY <1>1 DEF Command

\* Every plan begins with configure and ends with reset.
LEMMA PlanBegun ==
  ASSUME NEW j \in Jobs
  PROVE  Begun(Plan(j)) /\ Plan(j)[Len(Plan(j))].type = "reset"
<1> DEFINE
     p1 == <<Command("configure")>>
     a2 == IF j.nand \/ j.eraseall THEN Only(j.table, {c \in Entry : FirstErase(c)}) ELSE <<>>
     a3 == Only(j.table, {c \in Entry : Vendor(c)})
     a4 == IF j.eraseall THEN <<>> ELSE OtherErase(j)
     a5 == FirstProgram(j)
     a6 == LastProgram(j)
     a7 == Only(j.table, {c \in Entry : Patch(c)})
     a8 == IF j.nand THEN <<>> ELSE <<Command("setbootablestoragedrive")>>
     a9 == <<Command("reset")>>
<1>1. <<>> \in Seq(AnyCommand)
  OBVIOUS
<1>2. \A C : Only(j.table, C) \in Seq(AnyCommand)
  BY FromTable
<1>3. a2 \in Seq(AnyCommand) /\ a4 \in Seq(AnyCommand)
  BY <1>1, <1>2 DEF OtherErase
<1>4. a3 \in Seq(AnyCommand) /\ a7 \in Seq(AnyCommand)
  BY <1>2
<1>5. a5 \in Seq(AnyCommand) /\ a6 \in Seq(AnyCommand)
  BY <1>2 DEF FirstProgram, LastProgram
<1>6. a8 \in Seq(AnyCommand) /\ a9 \in Seq(AnyCommand)
  BY <1>1, Commands
<1>7. Begun(p1)
  BY Commands DEF Begun
<1>8. Plan(j) = p1 \o a2 \o a3 \o a4 \o a5 \o a6 \o a7 \o a8 \o a9
  BY DEF Plan
<1> HIDE DEF p1, a2, a3, a4, a5, a6, a7, a8
<1> DEFINE q == p1 \o a2 \o a3 \o a4 \o a5 \o a6 \o a7 \o a8
<1>9. Begun(q)
  <2>1. Begun(p1 \o a2)
    BY <1>3, <1>7, Begins
  <2>2. Begun(p1 \o a2 \o a3)
    BY <1>4, <2>1, Begins
  <2>3. Begun(p1 \o a2 \o a3 \o a4)
    BY <1>3, <2>2, Begins
  <2>4. Begun(p1 \o a2 \o a3 \o a4 \o a5)
    BY <1>5, <2>3, Begins
  <2>5. Begun(p1 \o a2 \o a3 \o a4 \o a5 \o a6)
    BY <1>5, <2>4, Begins
  <2>6. Begun(p1 \o a2 \o a3 \o a4 \o a5 \o a6 \o a7)
    BY <1>4, <2>5, Begins
  <2>7. QED
    BY <1>6, <2>6, Begins
<1> HIDE DEF q
<1>10. Begun(q \o a9)
  BY <1>6, <1>9, Begins
<1>11. (q \o a9)[Len(q \o a9)] = Command("reset")
  <2>1. q \in Seq(AnyCommand) /\ Len(q) \in Nat /\ Len(a9) = 1
    BY <1>9 DEF Begun
  <2>2. Len(q \o a9) = Len(q) + 1 /\ Len(q) + 1 \in 1 .. Len(q) + Len(a9)
    BY <1>6, <2>1, ConcatProperties
  <2>3. (q \o a9)[Len(q) + 1] = a9[(Len(q) + 1) - Len(q)]
    <3>1. ~(Len(q) + 1 <= Len(q))
      BY <2>1
    <3> HIDE DEF a9
    <3>2. QED
      BY <1>6, <2>1, <2>2, <3>1, ConcatProperties
  <2>4. (Len(q) + 1) - Len(q) = 1 /\ a9[1] = Command("reset")
    BY <2>1
  <2>5. QED
    BY <2>2, <2>3, <2>4
<1>12. QED
  BY <1>8, <1>10, <1>11, Commands DEF q

\* The data of a command.
LEMMA RunsOfCommand ==
  ASSUME NEW j \in Jobs, NEW c \in AnyCommand
  PROVE  /\ RunsOf(j, c) \in Seq(RunRecord)
         /\ IF c.type = "program" THEN \A g \in 1 .. Len(RunsOf(j, c)) : RunsOf(j, c)[g].size > 0
            ELSE Len(RunsOf(j, c)) = 1
<1>1. /\ c.size \in Nat /\ c.image \in Seq(SparseChunk)
      /\ IF c.type = "program" THEN c.image = <<>> => c.size > 0 ELSE c.image = <<>>
  BY DEF AnyCommand
<1>2. CASE c.image = <<>>
  <2>1. RunsOf(j, c) = <<Whole(c.size)>>
    BY <1>2 DEF RunsOf
  <2>2. Whole(c.size) \in RunRecord /\ Whole(c.size).size = c.size
    BY <1>1 DEF Whole, RunRecord
  <2>3. QED
    BY <1>1, <1>2, <2>1, <2>2
<1>3. CASE c.image # <<>> /\ j.zip
  <2>1. RunsOf(j, c) = <<>> /\ c.type = "program"
    BY <1>1, <1>3 DEF RunsOf
  <2>2. QED
    BY <2>1
<1>4. CASE c.image # <<>> /\ ~j.zip
  <2>1. RunsOf(j, c) = Runs(c.image) /\ c.type = "program"
    BY <1>1, <1>4 DEF RunsOf
  <2>2. QED
    BY <1>1, <2>1, RunsLoop
<1>5. QED
  BY <1>2, <1>3, <1>4

\* firehose_main makes a sensible plan of every table.
LEMMA PlanSensible ==
  ASSUME NEW j \in Jobs
  PROVE  Sensible(Schedule(j))
<1> DEFINE p == Plan(j)
           z == Schedule(j)
<1>1. /\ p \in Seq(AnyCommand) /\ Len(p) \in Nat /\ Len(p) > 0 /\ p[1].type = "configure"
      /\ p[Len(p)].type = "reset"
  BY PlanBegun DEF Begun
<1>2. z = [k \in 1 .. Len(p) |->
             [type |-> p[k].type, part |-> p[k].part, runs |-> RunsOf(j, p[k])]]
  BY DEF Schedule
<1> HIDE DEF p, z
<1>3. ASSUME NEW k \in 1 .. Len(p)
      PROVE  /\ z[k] \in Planned /\ z[k].type = p[k].type
             /\ IF z[k].type = "program"
                THEN \A g \in 1 .. Len(z[k].runs) : z[k].runs[g].size > 0
                ELSE Len(z[k].runs) = 1
  <2>1. p[k] \in AnyCommand
    <3> HIDE DEF AnyCommand
    <3>1. QED
      BY <1>1
  <2>2. z[k] = [type |-> p[k].type, part |-> p[k].part, runs |-> RunsOf(j, p[k])]
    BY <1>2
  <2>3. z[k].type = p[k].type /\ z[k].runs = RunsOf(j, p[k])
    BY <2>2
  <2>4. z[k] \in Planned
    <3>1. p[k].type \in CommandTypes /\ p[k].part \in Partition
      BY <2>1 DEF AnyCommand
    <3>2. RunsOf(j, p[k]) \in Seq(RunRecord)
      BY <2>1, RunsOfCommand
    <3> HIDE DEF CommandTypes, RunRecord
    <3>3. QED
      BY <2>2, <3>1, <3>2 DEF Planned
  <2>5. QED
    BY <2>1, <2>3, <2>4, RunsOfCommand
<1>4. z \in Seq(Planned) /\ Len(z) = Len(p)
  <2> HIDE DEF Planned
  <2>1. z \in [1 .. Len(p) -> Planned]
    BY <1>2, <1>3
  <2>2. z \in Seq(Planned)
    BY <1>1, <2>1, SeqDef
  <2>3. QED
    BY <1>1, <2>1, <2>2
<1>5. 1 \in 1 .. Len(p) /\ Len(p) \in 1 .. Len(p)
  BY <1>1
<1>6. Sensible(z)
  BY <1>1, <1>3, <1>4, <1>5 DEF Sensible
<1>7. QED
  BY <1>6 DEF z

\* firehose_main, in every call of the tool and for every package.
THEOREM FirehoseInvariant == QSpec => []FirehoseInv
<1>1. QInit => FirehoseInv
  <2> SUFFICES ASSUME QInit PROVE FirehoseInv
    OBVIOUS
  <2>1. /\ job \in Jobs /\ plan = Schedule(job) /\ pc = "idle"
        /\ at = 1 /\ group = 0 /\ payload = MaxPayload /\ filesend = 0
        /\ sk = <<>> /\ usb = <<>> /\ reader = "run" /\ dev = Idle(MaxPayload)
    BY DEF QInit, Init
  <2>2. Sensible(plan)
    BY <2>1, PlanSensible
  <2>3. dev \in Device /\ dev.mode = "idle"
    BY <2>1, Sizes, AtRest
  <2>4. sk \in Seq(Answer) /\ usb \in Seq(Message)
    BY <2>1
  <2>5. at \in 1 .. Len(plan) /\ Now.runs \in Seq(RunRecord)
    <3>1. 1 \in 1 .. Len(plan) /\ plan[1] \in Planned
      BY <2>2 DEF Sensible
    <3>2. QED
      BY <2>1, <3>1 DEF Now, Planned
  <2>6. Len(Now.runs) \in Nat
    BY <2>5
  <2>7. FirehoseTypes
    BY <2>1, <2>2, <2>3, <2>4, <2>5, <2>6, Sizes DEF FirehoseTypes, Phases
  <2>8. Turns
    BY <2>1 DEF Turns
  <2>9. Working
    BY <2>1, <2>3 DEF Working
  <2>10. QED
    BY <2>7, <2>8, <2>9 DEF FirehoseInv
<1>2. FirehoseInv /\ [QNext]_allvars => FirehoseInv'
  <2> SUFFICES ASSUME FirehoseInv, [QNext]_allvars PROVE FirehoseInv'
    OBVIOUS
  <2>0. Sensible(plan)
    BY DEF FirehoseInv, FirehoseTypes
  <2>1. ASSUME UNCHANGED vars PROVE FirehoseInv'
    <3>1. UNCHANGED <<host, dev, sk, usb, reader>> /\ Now' = Now /\ payload' = payload
      BY <2>1 DEF vars, host, Now
    <3>2. /\ reader' \in {"run", "dead"} /\ sk' \in Seq(Answer) /\ usb' \in Seq(Message)
      BY <3>1 DEF FirehoseInv, FirehoseTypes
    <3>3. (Quiet => Quiet') /\ (Single => Single') /\ (Sounds => Sounds')
      BY <3>1 DEF Quiet, Single, Sounds, Sound
    <3>4. QED
      BY <3>1, <3>2, <3>3, OnlyMessages
  <2>2. CASE UNCHANGED allvars
    BY <2>1, <2>2 DEF allvars
  <2>3. CASE LoadProgrammer
    BY <2>1, <2>3 DEF LoadProgrammer
  <2>4. CASE BeginFirehose
    <3>1. PICK l \in Limits : dev' = Idle(l)
      BY <2>4 DEF BeginFirehose, Start
    <3>2. /\ plan' = plan /\ pc' = "drain" /\ at' = 1 /\ group' = 0 /\ payload' = MaxPayload
          /\ filesend' = 0 /\ sk' = <<>> /\ usb' = <<>> /\ reader' = "run"
      BY <2>4 DEF BeginFirehose, Start
    <3>3. l \in Payloads
      BY Sizes
    <3>4. QED
      BY <2>0, <3>1, <3>2, <3>3, BeginStep
  <2>5. CASE Work
    BY <2>5, WorkStep
  <2>6. CASE CallAgain
    <3>1. /\ plan' = plan /\ pc' = "idle" /\ at' = 1 /\ group' = 0 /\ payload' = MaxPayload
          /\ filesend' = 0 /\ sk' = <<>> /\ usb' = <<>> /\ reader' = "run"
          /\ dev' = Idle(MaxPayload)
      BY <2>6 DEF CallAgain
    <3>2. MaxPayload \in Payloads
      BY Sizes
    <3>3. QED
      BY <2>0, <3>1, <3>2, BeginStep
  <2>7. QED
    BY <2>2, <2>3, <2>4, <2>5, <2>6 DEF QNext
<1>3. QED
  BY <1>1, <1>2, PTL DEF QSpec

\* No command and no chunk is sent while an earlier answer is under way, so the
\* answer read is the answer to the command that waits for it.
THEOREM OneAnswerAtATime == QSpec => []LockStep
<1>1. FirehoseInv => LockStep
  <2> SUFFICES ASSUME FirehoseInv PROVE LockStep
    OBVIOUS
  <2>1. ASSUME Quiet, dev.mode # "cmd" PROVE Outstanding = 0
    <3>1. Len(sk) = 0 /\ Cardinality(Responses(usb)) = 0
      BY <2>1, FS_EmptySet DEF Quiet
    <3>2. QED
      BY <2>1, <3>1 DEF Outstanding
  <2>2. ASSUME Single, dev.mode # "cmd" PROVE Outstanding <= 1
    <3>1. CASE Responses(usb) = {}
      <4>1. (Len(sk) = 0 \/ Len(sk) = 1) /\ Cardinality(Responses(usb)) = 0
        BY <2>2, <3>1, FS_EmptySet DEF Single
      <4>2. Outstanding = Len(sk)
        BY <2>2, <4>1 DEF Outstanding
      <4>3. QED
        BY <4>1, <4>2
    <3>2. CASE Responses(usb) # {}
      <4>1. PICK i : Responses(usb) = {i}
        BY <2>2, <3>2 DEF Single
      <4>2. Len(sk) = 0 /\ Cardinality(Responses(usb)) = 1
        BY <2>2, <3>2, <4>1, FS_Singleton DEF Single
      <4>3. QED
        BY <2>2, <4>2 DEF Outstanding
    <3>3. QED
      BY <3>1, <3>2
  <2>3. ASSUME Quiet PROVE Outstanding <= 1
    <3>1. Len(sk) = 0 /\ Cardinality(Responses(usb)) = 0
      BY <2>3, FS_EmptySet DEF Quiet
    <3>2. QED
      BY <3>1 DEF Outstanding
  <2>4. pc \in {"send", "again", "image"} => Quiet /\ dev.mode # "cmd"
    BY DEF FirehoseInv, Turns
  <2>5. pc \in {"answer", "answer2", "written"} => Single /\ (dev.mode = "cmd" => Quiet)
    BY DEF FirehoseInv, Turns
  <2>6. QED
    BY <2>1, <2>2, <2>3, <2>4, <2>5 DEF LockStep
<1>2. QED
  BY <1>1, FirehoseInvariant, PTL

\* Image data goes out only to a module in raw mode, in payloads it agreed to, and
\* never more of it than the whole sectors the command announced.
THEOREM ImageAlwaysFits == QSpec => []ImageFits
<1>1. FirehoseInv => ImageFits
  <2> SUFFICES ASSUME FirehoseInv PROVE ImageFits
    OBVIOUS
  <2>1. dev.mode = "raw" => dev.got <= Expected
    BY DEF FirehoseInv, Working
  <2>2. ASSUME pc = "image" PROVE dev.mode = "raw" /\ payload <= dev.limit
    <3>1. dev.mode = "raw" /\ Now.type = "program"
      BY <2>2 DEF FirehoseInv, Turns, Working
    <3>2. at > 1
      <4>1. at # 1
        BY <3>1 DEF FirehoseInv, FirehoseTypes, Sensible, Now
      <4>2. QED
        BY <4>1, AtWork
    <3>3. QED
      BY <3>1, <3>2 DEF FirehoseInv, Working
  <2>3. QED
    BY <2>1, <2>2 DEF ImageFits
<1>2. QED
  BY <1>1, FirehoseInvariant, PTL

-----------------------------------------------------------------------------
(* The runs of a sparse image are the pieces that it consists of. *)

\* A sum, term by term.
LEMMA SumLoop ==
  ASSUME NEW k \in Nat, NEW f \in [1 .. k -> Nat]
  PROVE  \E a \in [0 .. k -> Nat] :
           a[0] = 0 /\ (\A j \in 1 .. k : a[j] = a[j - 1] + f[j]) /\ SumTo(k, f) = a[k]
<1> DEFINE turn == [p \in Nat \X (1 .. k) |-> p[1] + f[p[2]]]
           F(g) == [j \in 0 .. k |-> IF j = 0 THEN 0 ELSE g[j - 1] + f[j]]
<1>1. IsTurn(turn, Nat, k)
  BY DEF IsTurn
<1>2. \A v \in Nat, j \in 1 .. k : turn[<<v, j>>] = v + f[j]
  OBVIOUS
<1> HIDE DEF turn
<1>3. PICK e : IsLoop(e, Nat, k, 0, turn)
  BY <1>1, Loop
<1>4. e \in [0 .. k -> Nat] /\ e[0] = 0 /\ \A j \in 1 .. k : e[j] = turn[<<e[j - 1], j>>]
  BY <1>3 DEF IsLoop
<1>5. \A j \in 1 .. k : j - 1 \in 0 .. k /\ j # 0 /\ j \in 0 .. k
  OBVIOUS
<1>6. \A j \in 1 .. k : e[j] = e[j - 1] + f[j]
  BY <1>2, <1>4, <1>5
<1>7. e = F(e)
  <2>1. \A j \in 0 .. k : j = 0 \/ j \in 1 .. k
    OBVIOUS
  <2>2. \A j \in 0 .. k : e[j] = F(e)[j]
    BY <1>4, <1>6, <2>1
  <2>3. QED
    BY <1>4, <2>2
<1> DEFINE g == CHOOSE h : h = F(h)
<1>8. g = F(g)
  BY <1>7, Zenon
<1>9. SumTo(k, f) = g[k]
  BY DEF SumTo
<1> HIDE DEF g
<1>10. g[0] = 0
  BY <1>8
<1>11. \A j \in 1 .. k : g[j] = g[j - 1] + f[j]
  BY <1>5, <1>8
<1> DEFINE T == {j \in Nat : j <= k => g[j] \in Nat}
<1>12. 0 \in T
  BY <1>10
<1>13. ASSUME NEW j \in T PROVE j + 1 \in T
  <2>1. j \in Nat /\ (j + 1) - 1 = j
    BY <1>13
  <2>2. ASSUME j + 1 <= k PROVE g[j + 1] \in Nat
    <3>1. g[j] \in Nat /\ j + 1 \in 1 .. k
      BY <1>13, <2>1, <2>2
    <3>2. g[j + 1] = g[j] + f[j + 1] /\ f[j + 1] \in Nat
      BY <1>11, <2>1, <3>1
    <3>3. QED
      BY <3>1, <3>2
  <2>3. QED
    BY <2>1, <2>2
<1>14. T = Nat
  <2> HIDE DEF T
  <2>1. T \in SUBSET Nat
    BY DEF T
  <2>2. QED
    BY <1>12, <1>13, <2>1, Induct
<1>15. g \in [0 .. k -> Nat]
  <2>1. \A j \in 0 .. k : g[j] \in Nat
    BY <1>14
  <2>2. g = [j \in 0 .. k |-> g[j]]
    BY <1>8
  <2>3. QED
    BY <2>1, <2>2
<1>16. QED
  BY <1>9, <1>10, <1>11, <1>15, Zenon

\* One more term.
LEMMA SumMore ==
  ASSUME NEW k \in Nat, NEW f \in [1 .. k -> Nat], NEW g \in [1 .. k + 1 -> Nat],
         \A j \in 1 .. k : f[j] = g[j]
  PROVE  /\ SumTo(k, f) \in Nat /\ SumTo(k + 1, g) = SumTo(k, f) + g[k + 1]
         /\ k = 0 => SumTo(k, f) = 0
<1>1. PICK a \in [0 .. k -> Nat] :
        a[0] = 0 /\ (\A j \in 1 .. k : a[j] = a[j - 1] + f[j]) /\ SumTo(k, f) = a[k]
  BY SumLoop
<1>2. PICK b \in [0 .. k + 1 -> Nat] :
        b[0] = 0 /\ (\A j \in 1 .. k + 1 : b[j] = b[j - 1] + g[j]) /\ SumTo(k + 1, g) = b[k + 1]
  <2> DEFINE n == k + 1
  <2>1. n \in Nat /\ g \in [1 .. n -> Nat]
    OBVIOUS
  <2> HIDE DEF n
  <2>2. \E b \in [0 .. n -> Nat] :
          b[0] = 0 /\ (\A j \in 1 .. n : b[j] = b[j - 1] + g[j]) /\ SumTo(n, g) = b[n]
    BY <2>1, SumLoop
  <2>3. QED
    BY <2>2 DEF n
<1> DEFINE T == {j \in Nat : j <= k => a[j] = b[j]}
<1>3. 0 \in T
  BY <1>1, <1>2
<1>4. ASSUME NEW j \in T PROVE j + 1 \in T
  <2>1. j \in Nat /\ (j + 1) - 1 = j
    BY <1>4
  <2>2. ASSUME j + 1 <= k PROVE a[j + 1] = b[j + 1]
    <3>1. a[j] = b[j] /\ j + 1 \in 1 .. k /\ j + 1 \in 1 .. k + 1
      BY <1>4, <2>1, <2>2
    <3>2. a[j + 1] = a[j] + f[j + 1]
      BY <1>1, <2>1, <3>1
    <3>3. b[j + 1] = b[j] + g[j + 1]
      BY <1>2, <2>1, <3>1
    <3>4. QED
      BY <3>1, <3>2, <3>3
  <2>3. QED
    BY <2>1, <2>2
<1>5. T = Nat
  <2> HIDE DEF T
  <2>1. T \in SUBSET Nat
    BY DEF T
  <2>2. QED
    BY <1>3, <1>4, <2>1, Induct
<1>6. a[k] = b[k] /\ a[k] \in Nat
  <2>1. k \in T
    BY <1>5
  <2>2. QED
    BY <1>1, <2>1
<1>7. b[k + 1] = b[k] + g[k + 1]
  <2>1. k + 1 \in 1 .. k + 1 /\ (k + 1) - 1 = k
    OBVIOUS
  <2>2. QED
    BY <1>2, <2>1
<1>8. QED
  BY <1>1, <1>2, <1>6, <1>7

\* Where chunk k belongs, and where the file has it, from the chunk before it.
LEMMA Places ==
  ASSUME NEW image \in Seq(SparseChunk), NEW k \in 1 .. Len(image)
  PROVE  /\ Place(image, k) \in Nat /\ Offset(image, k) \in Nat
         /\ Place(image, 1) = 0 /\ Offset(image, 1) = FileHeader
         /\ Place(image, k + 1) = Place(image, k) + image[k].chunk_sz * BlockSectors
         /\ Offset(image, k + 1) = Offset(image, k) + ChunkHeader + DataOf(image[k])
<1> DEFINE w(j) == image[j].chunk_sz * BlockSectors
           b(j) == ChunkHeader + DataOf(image[j])
<1>1. \A j \in 1 .. Len(image) : w(j) \in Nat /\ b(j) \in Nat
  <2>1. ASSUME NEW j \in 1 .. Len(image) PROVE w(j) \in Nat /\ b(j) \in Nat
    <3>1. image[j] \in SparseChunk
      OBVIOUS
    <3>2. image[j].chunk_sz \in Nat /\ BlockSectors \in Nat /\ ChunkHeader \in Nat
      BY <3>1, SparseAssumption DEF SparseChunk
    <3>3. DataOf(image[j]) \in Nat
      BY <3>1, DataOfChunk
    <3>4. QED
      BY <3>2, <3>3
  <2>2. QED
    BY <2>1
<1>2. k \in Nat /\ k - 1 \in Nat /\ (k + 1) - 1 = k /\ (k - 1) + 1 = k /\ 0 \in Nat /\ 1 - 1 = 0
  OBVIOUS
<1>3. /\ Place(image, k) = SumTo(k - 1, [j \in 1 .. k - 1 |-> w(j)])
      /\ Place(image, k + 1) = SumTo(k, [j \in 1 .. k |-> w(j)])
      /\ Place(image, 1) = SumTo(0, [j \in 1 .. 0 |-> w(j)])
      /\ Offset(image, k) = FileHeader + SumTo(k - 1, [j \in 1 .. k - 1 |-> b(j)])
      /\ Offset(image, k + 1) = FileHeader + SumTo(k, [j \in 1 .. k |-> b(j)])
      /\ Offset(image, 1) = FileHeader + SumTo(0, [j \in 1 .. 0 |-> b(j)])
  BY <1>2 DEF Place, Offset
<1>4. FileHeader \in Nat
  BY SparseAssumption
<1>5. \A j \in 1 .. k : j \in 1 .. Len(image)
  OBVIOUS
<1> HIDE DEF w, b
<1>6. /\ [j \in 1 .. k |-> w(j)] \in [1 .. k -> Nat] /\ [j \in 1 .. k |-> b(j)] \in [1 .. k -> Nat]
  BY <1>1, <1>5
<1>7. /\ [j \in 1 .. k - 1 |-> w(j)] \in [1 .. k - 1 -> Nat]
      /\ [j \in 1 .. k - 1 |-> b(j)] \in [1 .. k - 1 -> Nat]
  <2>1. \A j \in 1 .. k - 1 : j \in 1 .. k
    BY <1>2
  <2>2. QED
    BY <1>1, <1>5, <2>1
<1>8. /\ SumTo(k - 1, [j \in 1 .. k - 1 |-> w(j)]) \in Nat
      /\ SumTo(k, [j \in 1 .. k |-> w(j)]) = SumTo(k - 1, [j \in 1 .. k - 1 |-> w(j)]) + w(k)
  <2> DEFINE f == [j \in 1 .. k - 1 |-> w(j)]
             g == [j \in 1 .. k |-> w(j)]
             n == k - 1
  <2>1. n \in Nat /\ n + 1 = k
    BY <1>2
  <2>2. f \in [1 .. n -> Nat] /\ g \in [1 .. n + 1 -> Nat] /\ \A j \in 1 .. n : f[j] = g[j]
    BY <1>2, <1>6, <1>7
  <2>3. g[k] = w(k)
    OBVIOUS
  <2> HIDE DEF f, g, n
  <2>4. SumTo(n, f) \in Nat /\ SumTo(n + 1, g) = SumTo(n, f) + g[n + 1]
    BY <2>1, <2>2, SumMore
  <2>5. QED
    BY <2>1, <2>3, <2>4 DEF f, g, n
<1>9. /\ SumTo(k - 1, [j \in 1 .. k - 1 |-> b(j)]) \in Nat
      /\ SumTo(k, [j \in 1 .. k |-> b(j)]) = SumTo(k - 1, [j \in 1 .. k - 1 |-> b(j)]) + b(k)
  <2> DEFINE f == [j \in 1 .. k - 1 |-> b(j)]
             g == [j \in 1 .. k |-> b(j)]
             n == k - 1
  <2>1. n \in Nat /\ n + 1 = k
    BY <1>2
  <2>2. f \in [1 .. n -> Nat] /\ g \in [1 .. n + 1 -> Nat] /\ \A j \in 1 .. n : f[j] = g[j]
    BY <1>2, <1>6, <1>7
  <2>3. g[k] = b(k)
    OBVIOUS
  <2> HIDE DEF f, g, n
  <2>4. SumTo(n, f) \in Nat /\ SumTo(n + 1, g) = SumTo(n, f) + g[n + 1]
    BY <2>1, <2>2, SumMore
  <2>5. QED
    BY <2>1, <2>3, <2>4 DEF f, g, n
<1>10. \A f \in [1 .. 0 -> Nat] : SumTo(0, f) = 0
  <2>1. ASSUME NEW f \in [1 .. 0 -> Nat] PROVE SumTo(0, f) = 0
    <3>1. PICK a \in [0 .. 0 -> Nat] : a[0] = 0 /\ SumTo(0, f) = a[0]
      BY SumLoop
    <3>2. QED
      BY <3>1
  <2>2. QED
    BY <2>1
<1>11. [j \in 1 .. 0 |-> w(j)] \in [1 .. 0 -> Nat] /\ [j \in 1 .. 0 |-> b(j)] \in [1 .. 0 -> Nat]
  OBVIOUS
<1>12. Place(image, 1) = 0 /\ Offset(image, 1) = FileHeader
  <2> DEFINE f == [j \in 1 .. 0 |-> w(j)]
             g == [j \in 1 .. 0 |-> b(j)]
  <2>1. SumTo(0, f) = 0 /\ SumTo(0, g) = 0
    BY <1>10, <1>11
  <2>2. Place(image, 1) = SumTo(0, f) /\ Offset(image, 1) = FileHeader + SumTo(0, g)
    BY <1>3
  <2> HIDE DEF f, g
  <2>3. QED
    BY <1>4, <2>1, <2>2
<1>13. w(k) \in Nat /\ b(k) \in Nat
  BY <1>1
<1>14. /\ Place(image, k) \in Nat /\ Offset(image, k) \in Nat
       /\ Place(image, k + 1) = Place(image, k) + w(k)
       /\ Offset(image, k + 1) = Offset(image, k) + b(k)
  BY <1>3, <1>4, <1>8, <1>9, <1>13
<1>15. ChunkHeader \in Nat /\ DataOf(image[k]) \in Nat
  <2>1. image[k] \in SparseChunk
    OBVIOUS
  <2>2. QED
    BY <2>1, DataOfChunk, SparseAssumption
<1>16. Offset(image, k + 1) = Offset(image, k) + ChunkHeader + DataOf(image[k])
  BY <1>14, <1>15 DEF b
<1>17. QED
  BY <1>12, <1>14, <1>16 DEF w

\* How far a run reaches in flash and in the file; data that fills its blocks.
Reach(t) == t.chunk_sz * BlockSectors
Bytes(t) == t.total_sz + t.count * ChunkHeader
Full(t) == t.total_sz = Reach(t) * SECTOR_SIZE_IN_BYTES

\* One more chunk of a run.
LEMMA AddReaches ==
  ASSUME NEW t \in Totals, NEW c \in SparseChunk, c.type # "fill"
  PROVE  /\ Reach(t) \in Nat /\ Bytes(t) \in Nat /\ Add(t, c) \in Totals
         /\ Reach(Add(t, c)) = Reach(t) + c.chunk_sz * BlockSectors
         /\ Bytes(Add(t, c)) = Bytes(t) + ChunkHeader + DataOf(c)
         /\ IsData(c.type) /\ Full(t) => Full(Add(t, c))
         /\ ~IsData(c.type) => Add(t, c).total_sz = t.total_sz
<1> DEFINE B == BlockSectors
           Q == SECTOR_SIZE_IN_BYTES
           H == ChunkHeader
           z == Add(t, c)
<1>1. B \in Nat /\ Q \in Nat /\ H \in Nat
  BY SparseAssumption
<1>2. t.total_sz \in Nat /\ t.count \in Nat /\ t.chunk_sz \in Nat
  BY DEF Totals
<1>3. c.chunk_sz \in Nat /\ c.type \in {"raw", "fill", "hole"} /\ DataOf(c) \in Nat
  BY DataOfChunk DEF SparseChunk
<1>4. /\ z.total_sz = t.total_sz + DataOf(c) /\ z.count = t.count + 1
      /\ z.chunk_sz = t.chunk_sz + c.chunk_sz
      /\ z = [total_sz |-> t.total_sz + DataOf(c), count |-> t.count + 1,
              chunk_sz |-> t.chunk_sz + c.chunk_sz]
  BY DEF Add
<1>5. z \in Totals
  BY <1>2, <1>3, <1>4 DEF Totals
<1>6. \A x, y, m \in Nat : (x + y) * m = x * m + y * m /\ x * m \in Nat
  OBVIOUS
<1>7. \A x, y, m \in Nat : (x * m) * y \in Nat
  OBVIOUS
<1>8. (IsData(c.type) => DataOf(c) = c.chunk_sz * B * Q) /\ (~IsData(c.type) => DataOf(c) = 0)
  BY <1>3 DEF IsData, DataOf
<1> HIDE DEF z, B, Q, H
<1>9. Reach(t) = t.chunk_sz * B /\ Reach(z) = (t.chunk_sz + c.chunk_sz) * B
  BY <1>4 DEF Reach, B
<1>10. Reach(t) \in Nat /\ c.chunk_sz * B \in Nat /\ Reach(z) = Reach(t) + c.chunk_sz * B
  BY <1>1, <1>2, <1>3, <1>6, <1>9
<1>11. Bytes(t) = t.total_sz + t.count * H /\ Bytes(z) = t.total_sz + DataOf(c) + (t.count + 1) * H
  BY <1>4 DEF Bytes, H
<1>12. (t.count + 1) * H = t.count * H + H /\ t.count * H \in Nat
  BY <1>1, <1>2
<1>13. Bytes(t) \in Nat /\ Bytes(z) = Bytes(t) + H + DataOf(c)
  BY <1>1, <1>2, <1>3, <1>11, <1>12
<1>14. ASSUME IsData(c.type), Full(t) PROVE Full(z)
  <2>1. t.total_sz = Reach(t) * Q
    BY <1>14 DEF Full, Q
  <2>2. DataOf(c) = (c.chunk_sz * B) * Q
    BY <1>8, <1>14
  <2>3. (Reach(t) + c.chunk_sz * B) * Q = Reach(t) * Q + (c.chunk_sz * B) * Q
    BY <1>1, <1>6, <1>10
  <2>4. z.total_sz = Reach(z) * Q
    BY <1>4, <1>10, <2>1, <2>2, <2>3
  <2>5. QED
    BY <2>4 DEF Full, Q
<1>15. ~IsData(c.type) => z.total_sz = t.total_sz
  BY <1>2, <1>4, <1>8
<1>16. QED
  BY <1>5, <1>10, <1>13, <1>14, <1>15 DEF z, B, H

\* Full runs are whole sectors.
LEMMA WholeSectors ==
  ASSUME NEW t \in Totals, Full(t)
  PROVE  Reach(t) \in Nat /\ Sectors(t.total_sz) = Reach(t)
<1> DEFINE s == SECTOR_SIZE_IN_BYTES
           n == Reach(t)
           m == n * s + s - 1
<1>1. s \in Nat /\ s > 0 /\ n \in Nat
  <2>1. t.chunk_sz \in Nat /\ BlockSectors \in Nat
    BY SparseAssumption DEF Totals
  <2>2. QED
    BY <2>1, SparseAssumption DEF Reach
<1>2. Sectors(t.total_sz) = m \div s
  BY DEF Sectors, Full
<1>3. n * s \in Nat
  BY <1>1
<1> HIDE DEF s, n
<1>4. m \in Nat
  BY <1>1, <1>3
<1>5. PICK q \in Int, r \in Int : q = m \div s /\ r = m % s
  BY <1>1, <1>4
<1> HIDE DEF m
<1>6. m = s * q + r /\ 0 <= r /\ r < s
  BY <1>1, <1>4, <1>5
<1>7. m = n * s + s - 1
  BY DEF m
<1>8. ~(q < n)
  <2>1. ASSUME q < n PROVE FALSE
    <3>1. s * q <= s * (n - 1)
      BY <1>1, <1>5, <2>1
    <3>2. s * (n - 1) = n * s - s
      BY <1>1
    <3>3. QED
      BY <1>1, <1>3, <1>5, <1>6, <1>7, <3>1, <3>2
  <2>2. QED
    BY <2>1
<1>9. ~(q > n)
  <2>1. ASSUME q > n PROVE FALSE
    <3>1. s * q >= s * (n + 1)
      BY <1>1, <1>5, <2>1
    <3>2. s * (n + 1) = n * s + s
      BY <1>1
    <3>3. QED
      BY <1>1, <1>3, <1>5, <1>6, <1>7, <3>1, <3>2
  <2>2. QED
    BY <2>1
<1>10. q = n
  BY <1>1, <1>5, <1>8, <1>9
<1>11. QED
  BY <1>1, <1>2, <1>5, <1>10 DEF n, m

\* From chunk k to chunk l there are a run of data and a hole.
Apart(image, k, l, data, hole) ==
  /\ Place(image, l) = Place(image, k) + Reach(data) + Reach(hole)
  /\ Offset(image, l) = Offset(image, k) + Bytes(data) + Bytes(hole)

\* After m chunks: the heads of the runs so far, in order; each is as far from the one
\* before it as the totals say, and so is the chunk that comes next.
Walked(image, m, s, heads) ==
  LET n == Len(heads)
  IN  /\ heads \in Seq(1 .. Len(image)) /\ n > 0 /\ heads[1] = 1
      /\ \A k : k \in RunHeads(image) /\ k <= m <=> \E i \in 1 .. n : heads[i] = k
      /\ s \in Scanned /\ s.last = image[m].type
      /\ Len(s.cac3) = n - 1
      /\ Len(s.data) = IF IsData(s.last) THEN n - 1 ELSE n
      /\ \A i \in 1 .. Len(s.data) : Full(s.data[i])
      /\ \A i \in 1 .. n - 1 : /\ s.cac3[i].total_sz = 0
                               /\ Apart(image, heads[i], heads[i + 1], s.data[i], s.cac3[i])
      /\ IF IsData(s.last) THEN Full(s.acc) /\ Apart(image, heads[n], m + 1, s.acc, Zero)
         ELSE s.acc.total_sz = 0 /\ Apart(image, heads[n], m + 1, s.data[n], s.acc)

\* Sums, with the terms that are added last added first.
LEMMA Regroup ==
  ASSUME NEW x \in Nat, NEW y \in Nat, NEW u \in Nat, NEW v \in Nat, NEW w \in Nat
  PROVE  /\ (x + y + u) + v = x + y + (u + v)
         /\ (x + y + u) + v + w = x + y + (u + v + w)
         /\ (x + y + 0) + v = x + (y + v) + 0
         /\ (x + y + 0) + v + w = x + (y + v + w) + 0
OBVIOUS

\* One chunk farther.
LEMMA Farther ==
  ASSUME NEW image \in Seq(SparseChunk), NEW k \in 1 .. Len(image), NEW l \in 1 .. Len(image),
         NEW d \in Totals, NEW h \in Totals, image[l].type # "fill"
  PROVE  /\ Zero \in Totals /\ Full(Zero) /\ Zero.total_sz = 0 /\ Apart(image, l, l, Zero, Zero)
         /\ Apart(image, k, l, d, h) => Apart(image, k, l + 1, d, Add(h, image[l]))
         /\ Apart(image, k, l, d, Zero) => Apart(image, k, l + 1, Add(d, image[l]), Zero)
<1> DEFINE c == image[l]
<1>1. c \in SparseChunk
  OBVIOUS
<1>2. Zero \in Totals /\ Zero.total_sz = 0 /\ Zero.chunk_sz = 0 /\ Zero.count = 0
  BY DEF Zero, Totals
<1>3. Reach(Zero) = 0 /\ Bytes(Zero) = 0 /\ Full(Zero)
  <2>1. /\ 0 * BlockSectors = 0 /\ 0 * ChunkHeader = 0 /\ 0 * SECTOR_SIZE_IN_BYTES = 0
    BY SparseAssumption
  <2>2. QED
    BY <1>2, <2>1 DEF Reach, Bytes, Full
<1>4. /\ Place(image, k) \in Nat /\ Offset(image, k) \in Nat
      /\ Place(image, l) \in Nat /\ Offset(image, l) \in Nat
      /\ Place(image, l + 1) = Place(image, l) + c.chunk_sz * BlockSectors
      /\ Offset(image, l + 1) = Offset(image, l) + ChunkHeader + DataOf(c)
  BY Places
<1>5. c.chunk_sz * BlockSectors \in Nat /\ ChunkHeader \in Nat /\ DataOf(c) \in Nat
  <2>1. c.chunk_sz \in Nat /\ BlockSectors \in Nat
    BY <1>1, SparseAssumption DEF SparseChunk
  <2>2. QED
    BY <1>1, <2>1, DataOfChunk, SparseAssumption
<1>6. \A t \in Totals : /\ Reach(t) \in Nat /\ Bytes(t) \in Nat
                        /\ Reach(Add(t, c)) = Reach(t) + c.chunk_sz * BlockSectors
                        /\ Bytes(Add(t, c)) = Bytes(t) + ChunkHeader + DataOf(c)
  BY <1>1, AddReaches
<1> DEFINE w == c.chunk_sz * BlockSectors
           b == DataOf(c)
<1>7. /\ w \in Nat /\ b \in Nat /\ ChunkHeader \in Nat
      /\ Place(image, k) \in Nat /\ Offset(image, k) \in Nat
      /\ Place(image, l) \in Nat /\ Offset(image, l) \in Nat
      /\ Place(image, l + 1) = Place(image, l) + w
      /\ Offset(image, l + 1) = Offset(image, l) + ChunkHeader + b
      /\ Reach(d) \in Nat /\ Bytes(d) \in Nat
      /\ Reach(h) \in Nat /\ Bytes(h) \in Nat
      /\ Reach(Add(d, c)) = Reach(d) + w /\ Bytes(Add(d, c)) = Bytes(d) + ChunkHeader + b
      /\ Reach(Add(h, c)) = Reach(h) + w /\ Bytes(Add(h, c)) = Bytes(h) + ChunkHeader + b
  BY <1>4, <1>5, <1>6
<1> HIDE DEF w, b, c
<1>8. Apart(image, l, l, Zero, Zero)
  BY <1>3, <1>4 DEF Apart
<1> DEFINE pk == Place(image, k)
           pl == Place(image, l)
           pm == Place(image, l + 1)
           ok == Offset(image, k)
           ol == Offset(image, l)
           om == Offset(image, l + 1)
           rd == Reach(d)
           rh == Reach(h)
           bd == Bytes(d)
           bh == Bytes(h)
           H == ChunkHeader
<1>9. /\ w \in Nat /\ b \in Nat /\ H \in Nat
      /\ pk \in Nat /\ ok \in Nat /\ pl \in Nat /\ ol \in Nat
      /\ pm = pl + w /\ om = ol + H + b
      /\ rd \in Nat /\ bd \in Nat /\ rh \in Nat /\ bh \in Nat
  BY <1>7
<1>10. /\ Reach(Add(d, c)) = rd + w /\ Bytes(Add(d, c)) = bd + H + b
       /\ Reach(Add(h, c)) = rh + w /\ Bytes(Add(h, c)) = bh + H + b
  BY <1>7
<1>11. /\ Apart(image, k, l, d, h) <=> pl = pk + rd + rh /\ ol = ok + bd + bh
       /\ Apart(image, k, l + 1, d, Add(h, c)) <=>
            pm = pk + rd + (rh + w) /\ om = ok + bd + (bh + H + b)
       /\ Apart(image, k, l, d, Zero) <=> pl = pk + rd + 0 /\ ol = ok + bd + 0
       /\ Apart(image, k, l + 1, Add(d, c), Zero) <=>
            pm = pk + (rd + w) + 0 /\ om = ok + (bd + H + b) + 0
  BY <1>3, <1>10, Zenon DEF Apart
<1> HIDE DEF pk, pl, pm, ok, ol, om, rd, rh, bd, bh, H
<1>12. pl = pk + rd + rh /\ ol = ok + bd + bh =>
         pm = pk + rd + (rh + w) /\ om = ok + bd + (bh + H + b)
  <2>1. (pk + rd + rh) + w = pk + rd + (rh + w)
    BY <1>9, Regroup
  <2>2. (ok + bd + bh) + H + b = ok + bd + (bh + H + b)
    BY <1>9, Regroup
  <2>3. QED
    BY <1>9, <2>1, <2>2, Zenon
<1>13. pl = pk + rd + 0 /\ ol = ok + bd + 0 =>
         pm = pk + (rd + w) + 0 /\ om = ok + (bd + H + b) + 0
  <2>1. (pk + rd + 0) + w = pk + (rd + w) + 0
    BY <1>9, Regroup
  <2>2. (ok + bd + 0) + H + b = ok + (bd + H + b) + 0
    BY <1>9, Regroup
  <2>3. QED
    BY <1>9, <2>1, <2>2, Zenon
<1>14. QED
  BY <1>2, <1>3, <1>8, <1>11, <1>12, <1>13, Zenon DEF c

\* The heads up to the next chunk.
LEMMA NextHead ==
  ASSUME NEW image \in Seq(SparseChunk), NEW m \in 1 .. Len(image), m + 1 <= Len(image), NEW k
  PROVE  k \in RunHeads(image) /\ k <= m + 1 <=>
           \/ k \in RunHeads(image) /\ k <= m
           \/ k = m + 1 /\ IsData(image[m + 1].type) /\ ~IsData(image[m].type)
<1>1. m + 1 \in 1 .. Len(image) /\ m + 1 # 1 /\ (m + 1) - 1 = m
  OBVIOUS
<1>2. m + 1 \in RunHeads(image) <=> IsData(image[m + 1].type) /\ ~IsData(image[m].type)
  BY <1>1 DEF RunHeads
<1>3. k \in RunHeads(image) => k \in 1 .. Len(image)
  BY DEF RunHeads
<1>4. k \in 1 .. Len(image) => (k <= m + 1 <=> k <= m \/ k = m + 1)
  OBVIOUS
<1>5. m + 1 <= m + 1
  OBVIOUS
<1>6. QED
  BY <1>2, <1>3, <1>4, <1>5

\* One more turn of the loop over the chunks.
LEMMA WalkOn ==
  ASSUME NEW image \in Seq(SparseChunk), NEW m \in 1 .. Len(image), m + 1 <= Len(image),
         NEW s, NEW heads, Walked(image, m, s, heads),
         \A k \in 1 .. Len(image) : image[k].type # "fill"
  PROVE  \E x : Walked(image, m + 1, ScanTurn(s, image[m + 1]), x)
<1> DEFINE n == Len(heads)
           c == image[m + 1]
           z == ScanTurn(s, c)
<1>1. /\ heads \in Seq(1 .. Len(image)) /\ n \in Nat /\ n > 0 /\ heads[1] = 1
      /\ \A k : k \in RunHeads(image) /\ k <= m <=> \E i \in 1 .. n : heads[i] = k
      /\ s \in Scanned /\ s.last = image[m].type
      /\ Len(s.cac3) = n - 1
      /\ Len(s.data) = IF IsData(s.last) THEN n - 1 ELSE n
      /\ \A i \in 1 .. Len(s.data) : Full(s.data[i])
      /\ \A i \in 1 .. n - 1 : /\ s.cac3[i].total_sz = 0
                               /\ Apart(image, heads[i], heads[i + 1], s.data[i], s.cac3[i])
      /\ IsData(s.last) => Full(s.acc) /\ Apart(image, heads[n], m + 1, s.acc, Zero)
      /\ ~IsData(s.last) => s.acc.total_sz = 0 /\ Apart(image, heads[n], m + 1, s.data[n], s.acc)
  BY DEF Walked
<1>2. /\ m + 1 \in 1 .. Len(image) /\ c \in SparseChunk /\ image[m] \in SparseChunk
      /\ c.type # "fill" /\ n \in 1 .. n /\ heads[n] \in 1 .. Len(image)
  BY <1>1
<1>3. /\ s.acc \in Totals /\ s.data \in Seq(Totals) /\ s.cac3 \in Seq(Totals)
  BY <1>1 DEF Scanned
<1>4. c.type \in {"raw", "hole"} /\ s.last \in {"raw", "hole"}
  BY <1>1, <1>2 DEF SparseChunk
<1>5. /\ z \in Scanned /\ z.last = c.type
      /\ z.data = IF ~IsData(c.type) /\ IsData(s.last) THEN Append(s.data, s.acc) ELSE s.data
      /\ z.cac3 = IF IsData(c.type) /\ s.last = "hole" THEN Append(s.cac3, s.acc) ELSE s.cac3
      /\ z.acc = Add(IF IsData(c.type) THEN IF s.last = "hole" THEN Zero ELSE s.acc
                     ELSE IF IsData(s.last) THEN Zero ELSE s.acc, c)
  BY <1>1, <1>2, ScanTurnGood
<1>6. (IsData(s.last) <=> s.last = "raw") /\ (IsData(c.type) <=> c.type = "raw")
  BY <1>4 DEF IsData
<1>7. /\ Zero \in Totals /\ Full(Zero) /\ Zero.total_sz = 0
      /\ Apart(image, m + 1, m + 1, Zero, Zero)
      /\ \A k \in 1 .. Len(image), d, h \in Totals :
           /\ Apart(image, k, m + 1, d, h) => Apart(image, k, m + 2, d, Add(h, c))
           /\ Apart(image, k, m + 1, d, Zero) => Apart(image, k, m + 2, Add(d, c), Zero)
  <2>1. (m + 1) + 1 = m + 2
    OBVIOUS
  <2> DEFINE l == m + 1
  <2>2. l \in 1 .. Len(image) /\ image[l].type # "fill"
    BY <1>2
  <2> HIDE DEF l
  <2>3. /\ Zero \in Totals /\ Full(Zero) /\ Zero.total_sz = 0 /\ Apart(image, l, l, Zero, Zero)
        /\ \A k \in 1 .. Len(image), d, h \in Totals :
             /\ Apart(image, k, l, d, h) => Apart(image, k, l + 1, d, Add(h, image[l]))
             /\ Apart(image, k, l, d, Zero) => Apart(image, k, l + 1, Add(d, image[l]), Zero)
    <3>1. Zero \in Totals
      BY DEF Zero, Totals
    <3>2. QED
      BY <2>2, <3>1, Farther
  <2>4. QED
    BY <2>1, <2>3 DEF l
<1>8. \A k : k \in RunHeads(image) /\ k <= m + 1 <=>
               \/ k \in RunHeads(image) /\ k <= m
               \/ k = m + 1 /\ IsData(c.type) /\ ~IsData(s.last)
  BY <1>1, NextHead
<1>9. \A t \in Totals : /\ IsData(c.type) /\ Full(t) => Full(Add(t, c))
                        /\ ~IsData(c.type) => Add(t, c).total_sz = t.total_sz
  BY <1>2, AddReaches
<1> HIDE DEF z, c, n
<1>10. (m + 1) + 1 = m + 2
  OBVIOUS
<1>11. CASE s.last = "raw" /\ c.type = "raw"
  <2>1. z.data = s.data /\ z.cac3 = s.cac3 /\ z.acc = Add(s.acc, c) /\ z.last = "raw"
    BY <1>5, <1>6, <1>11
  <2>2. IsData(z.last) /\ IsData(s.last) /\ IsData(c.type)
    BY <1>6, <1>11, <2>1
  <2>3. Full(z.acc) /\ Apart(image, heads[n], (m + 1) + 1, z.acc, Zero)
    BY <1>1, <1>2, <1>3, <1>7, <1>9, <1>10, <2>1, <2>2
  <2>4. \A k : k \in RunHeads(image) /\ k <= m + 1 <=> \E i \in 1 .. n : heads[i] = k
    BY <1>1, <1>8, <2>2
  <2>5. Walked(image, m + 1, z, heads)
    BY <1>1, <1>5, <2>1, <2>2, <2>3, <2>4 DEF Walked, n, c
  <2>6. QED
    BY <2>5 DEF z, c
<1>12. CASE s.last = "raw" /\ c.type = "hole"
  <2>1. z.data = Append(s.data, s.acc) /\ z.cac3 = s.cac3 /\ z.acc = Add(Zero, c) /\ z.last = "hole"
    BY <1>5, <1>6, <1>12
  <2>2. ~IsData(z.last) /\ IsData(s.last) /\ ~IsData(c.type)
    BY <1>5, <1>6, <1>12 DEF IsData
  <2> HIDE DEF Totals
  <2>3. /\ Len(s.data) = n - 1 /\ Len(z.data) = n /\ z.data[n] = s.acc
        /\ \A i \in 1 .. n - 1 : z.data[i] = s.data[i]
    BY <1>1, <1>3, <2>1, <2>2
  <2>4. z.acc.total_sz = 0
    BY <1>7, <1>9, <2>1, <2>2
  <2>5. Apart(image, heads[n], (m + 1) + 1, z.data[n], z.acc)
    BY <1>1, <1>2, <1>3, <1>7, <1>10, <2>1, <2>2, <2>3
  <2>6. \A k : k \in RunHeads(image) /\ k <= m + 1 <=> \E i \in 1 .. n : heads[i] = k
    BY <1>1, <1>8, <2>2
  <2>7. \A i \in 1 .. Len(z.data) : Full(z.data[i])
    <3>1. \A i \in 1 .. n : i \in 1 .. n - 1 \/ i = n
      BY <1>1
    <3>2. QED
      BY <1>1, <2>2, <2>3, <3>1
  <2>8. \A i \in 1 .. n - 1 : /\ z.cac3[i].total_sz = 0
                              /\ Apart(image, heads[i], heads[i + 1], z.data[i], z.cac3[i])
    BY <1>1, <2>1, <2>3
  <2>9. Walked(image, m + 1, z, heads)
    BY <1>1, <1>5, <2>1, <2>2, <2>3, <2>4, <2>5, <2>6, <2>7, <2>8 DEF Walked, n, c
  <2>10. QED
    BY <2>9 DEF z, c
<1>13. CASE s.last = "hole" /\ c.type = "hole"
  <2>1. z.data = s.data /\ z.cac3 = s.cac3 /\ z.acc = Add(s.acc, c) /\ z.last = "hole"
    BY <1>5, <1>6, <1>13
  <2>2. ~IsData(z.last) /\ ~IsData(s.last) /\ ~IsData(c.type)
    BY <1>5, <1>6, <1>13 DEF IsData
  <2>3. z.acc.total_sz = 0
    BY <1>1, <1>3, <1>9, <2>1, <2>2
  <2>4. Apart(image, heads[n], (m + 1) + 1, z.data[n], z.acc)
    <3>1. n \in 1 .. Len(s.data)
      BY <1>1, <2>2
    <3>2. s.data[n] \in Totals
      BY <1>3, <3>1
    <3>3. QED
      BY <1>1, <1>2, <1>3, <1>7, <1>10, <2>1, <2>2, <3>2
  <2>5. \A k : k \in RunHeads(image) /\ k <= m + 1 <=> \E i \in 1 .. n : heads[i] = k
    BY <1>1, <1>8, <2>2
  <2>6. Walked(image, m + 1, z, heads)
    BY <1>1, <1>5, <2>1, <2>2, <2>3, <2>4, <2>5 DEF Walked, n, c
  <2>7. QED
    BY <2>6 DEF z, c
<1>14. CASE s.last = "hole" /\ c.type = "raw"
  <2> DEFINE x == Append(heads, m + 1)
  <2>1. z.data = s.data /\ z.cac3 = Append(s.cac3, s.acc) /\ z.acc = Add(Zero, c) /\ z.last = "raw"
    BY <1>5, <1>6, <1>14
  <2>2. IsData(z.last) /\ ~IsData(s.last) /\ IsData(c.type)
    BY <1>5, <1>6, <1>14
  <2>3. /\ x \in Seq(1 .. Len(image)) /\ Len(x) = n + 1 /\ x[n + 1] = m + 1
        /\ \A i \in 1 .. n : x[i] = heads[i]
    BY <1>1, <1>2 DEF n
  <2> HIDE DEF x, Totals
  <2>4. /\ Len(z.cac3) = n /\ z.cac3[n] = s.acc /\ Len(z.data) = n
        /\ \A i \in 1 .. n - 1 : z.cac3[i] = s.cac3[i]
    BY <1>1, <1>3, <2>1, <2>2
  <2>5. Full(z.acc) /\ Apart(image, x[n + 1], (m + 1) + 1, z.acc, Zero)
    BY <1>2, <1>7, <1>9, <1>10, <2>1, <2>2, <2>3
  <2>6. ASSUME NEW i \in 1 .. n
        PROVE  /\ z.cac3[i].total_sz = 0
               /\ Apart(image, x[i], x[i + 1], z.data[i], z.cac3[i])
    <3>1. CASE i \in 1 .. n - 1
      <4>1. i + 1 \in 1 .. n
        BY <1>1, <3>1
      <4>2. QED
        BY <1>1, <2>1, <2>3, <2>4, <3>1, <4>1
    <3>2. CASE i = n
      BY <1>1, <2>1, <2>2, <2>3, <2>4, <3>2
    <3>3. QED
      BY <1>1, <3>1, <3>2
  <2>7. ASSUME NEW k
        PROVE  k \in RunHeads(image) /\ k <= m + 1 <=> \E i \in 1 .. n + 1 : x[i] = k
    <3>1. \A i : i \in 1 .. n + 1 <=> i \in 1 .. n \/ i = n + 1
      <4>1. n \in Nat /\ n > 0
        BY <1>1
      <4>2. QED
        BY <4>1
    <3>2. (\E i \in 1 .. n + 1 : x[i] = k) <=> (\E i \in 1 .. n : heads[i] = k) \/ k = m + 1
      BY <2>3, <3>1
    <3>3. k \in RunHeads(image) /\ k <= m + 1 <=> (k \in RunHeads(image) /\ k <= m) \/ k = m + 1
      BY <1>8, <2>2
    <3>4. QED
      BY <1>1, <3>2, <3>3
  <2>8. x[1] = 1 /\ Len(x) > 0 /\ Len(x) - 1 = n
    BY <1>1, <2>3
  <2>9. Walked(image, m + 1, z, x)
    BY <1>1, <1>5, <2>1, <2>2, <2>3, <2>4, <2>5, <2>6, <2>7, <2>8 DEF Walked, c
  <2>10. QED
    BY <2>9 DEF z, c
<1>15. QED
  BY <1>4, <1>11, <1>12, <1>13, <1>14

\* An image with data in front and without fill chunks.
Plain(image) ==
  /\ image \in Seq(SparseChunk) /\ image # <<>> /\ IsData(image[1].type)
  /\ \A k \in 1 .. Len(image) : image[k].type # "fill"

\* The first chunk.
LEMMA WalkBegins ==
  ASSUME NEW image, Plain(image)
  PROVE  Len(image) \in Nat /\ Len(image) > 0 /\ \E x : Walked(image, 1, ScanTurn(Blank, image[1]), x)
<1> DEFINE c == image[1]
           z == ScanTurn(Blank, c)
           x == <<1>>
<1>1. /\ image \in Seq(SparseChunk) /\ Len(image) \in Nat /\ Len(image) > 0 /\ 1 \in 1 .. Len(image)
      /\ IsData(c.type) /\ c.type # "fill"
  <2>1. image \in Seq(SparseChunk) /\ image # <<>> /\ IsData(c.type)
    BY DEF Plain
  <2>2. Len(image) \in Nat /\ Len(image) # 0
    BY <2>1
  <2>3. 1 \in 1 .. Len(image) /\ Len(image) > 0
    BY <2>2
  <2>4. QED
    BY <2>1, <2>2, <2>3 DEF Plain
<1>2. c \in SparseChunk
  BY <1>1
<1>3. Zero \in Totals /\ Full(Zero) /\ Apart(image, 1, 1, Zero, Zero)
      /\ Apart(image, 1, 1 + 1, Add(Zero, c), Zero)
  <2>1. Zero \in Totals
    BY DEF Zero, Totals
  <2>2. QED
    BY <1>1, <2>1, Farther
<1>4. Blank \in Scanned
  <2>1. <<>> \in Seq(Totals) /\ Len(<<>>) = 0
    OBVIOUS
  <2> HIDE DEF Totals
  <2>2. QED
    BY <1>3, <2>1 DEF Blank, Scanned, IsData
<1>5. Blank.last = "none" /\ Blank.data = <<>> /\ Blank.cac3 = <<>> /\ Blank.acc = Zero
  BY DEF Blank
<1>6. /\ z \in Scanned /\ z.last = c.type /\ z.data = <<>> /\ z.cac3 = <<>> /\ z.acc = Add(Zero, c)
  BY <1>1, <1>2, <1>4, <1>5, ScanTurnGood
<1>7. Full(Add(Zero, c))
  BY <1>1, <1>2, <1>3, AddReaches
<1>8. /\ x \in Seq(1 .. Len(image)) /\ Len(x) = 1 /\ x[1] = 1
  BY <1>1
<1>9. \A k : k \in RunHeads(image) /\ k <= 1 <=> \E i \in 1 .. 1 : x[i] = k
  <2>1. 1 \in RunHeads(image) /\ \A k \in RunHeads(image) : k \in 1 .. Len(image)
    BY <1>1 DEF RunHeads
  <2>2. \A k \in 1 .. Len(image) : k <= 1 <=> k = 1
    BY <1>1
  <2>3. \A i : i \in 1 .. 1 <=> i = 1
    OBVIOUS
  <2>4. QED
    BY <1>8, <2>1, <2>2, <2>3
<1> HIDE DEF x, z
<1>10. Len(z.data) = 0 /\ Len(z.cac3) = 0
  BY <1>6
<1>11. Walked(image, 1, z, x)
  BY <1>1, <1>3, <1>6, <1>7, <1>8, <1>9, <1>10 DEF Walked, c
<1>12. QED
  BY <1>1, <1>11 DEF z, c

\* As many runs as the image has, and as far apart.
Found(image, s, heads) ==
  LET n == Len(heads)
  IN  /\ heads \in Seq(1 .. Len(image)) /\ n > 0 /\ heads[1] = 1
      /\ \A k : k \in RunHeads(image) <=> \E i \in 1 .. n : heads[i] = k
      /\ s.data \in Seq(Totals) /\ s.cac3 \in Seq(Totals)
      /\ Len(s.cac3) = n - 1 /\ Len(s.data) = n
      /\ \A i \in 1 .. n : Full(s.data[i])
      /\ \A i \in 1 .. n - 1 : /\ s.cac3[i].total_sz = 0
                               /\ Apart(image, heads[i], heads[i + 1], s.data[i], s.cac3[i])

\* fh_process_sparse_program finds the runs of the image.
LEMMA ScanFinds ==
  ASSUME NEW image, Plain(image)
  PROVE  \E x : Found(image, Scan(image), x)
<1> DEFINE N == Len(image)
<1>1. /\ image \in Seq(SparseChunk) /\ N \in Nat /\ N > 0
      /\ \A k \in 1 .. N : image[k].type # "fill"
  BY WalkBegins DEF Plain
<1>2. PICK a \in [0 .. N -> Scanned] :
        /\ a[0] = Blank
        /\ \A m \in 1 .. N : a[m] = ScanTurn(a[m - 1], image[m])
        /\ Scan(image) = CloseLast(a[N])
  BY <1>1, ScanLoop
<1> HIDE DEF N
<1> DEFINE T == {m \in Nat : m + 1 <= N => \E x : Walked(image, m + 1, a[m + 1], x)}
<1>3. 0 \in T
  <2>1. 1 \in 1 .. N /\ 1 - 1 = 0
    BY <1>1
  <2>2. a[1] = ScanTurn(Blank, image[1])
    BY <1>2, <2>1
  <2>3. \E x : Walked(image, 1, a[1], x)
    BY <2>2, WalkBegins
  <2>4. QED
    BY <2>3
<1>4. ASSUME NEW m \in T PROVE m + 1 \in T
  <2>1. m \in Nat
    BY <1>4
  <2>2. ASSUME (m + 1) + 1 <= N PROVE \E x : Walked(image, (m + 1) + 1, a[(m + 1) + 1], x)
    <3> DEFINE l == m + 1
    <3>1. l \in 1 .. N /\ l + 1 <= N /\ l + 1 \in 1 .. N /\ (l + 1) - 1 = l
      BY <1>1, <2>1, <2>2
    <3>2. PICK x : Walked(image, l, a[l], x)
      BY <1>4, <3>1
    <3>3. a[l + 1] = ScanTurn(a[l], image[l + 1])
      BY <1>2, <3>1
    <3> HIDE DEF l
    <3>4. \E y : Walked(image, l + 1, ScanTurn(a[l], image[l + 1]), y)
      BY <1>1, <3>1, <3>2, WalkOn DEF N
    <3>5. QED
      BY <3>3, <3>4 DEF l
  <2>3. QED
    BY <2>1, <2>2
<1>5. T = Nat
  <2> HIDE DEF T
  <2>1. T \in SUBSET Nat
    BY DEF T
  <2>2. QED
    BY <1>3, <1>4, <2>1, Induct
<1>6. PICK x : Walked(image, N, a[N], x)
  <2>1. N - 1 \in Nat /\ (N - 1) + 1 = N /\ N <= N
    BY <1>1
  <2>2. N - 1 \in T
    BY <1>5, <2>1
  <2>3. QED
    BY <2>1, <2>2
<1> DEFINE n == Len(x)
           s == a[N]
           z == CloseLast(s)
<1>7. /\ x \in Seq(1 .. N) /\ n \in Nat /\ n > 0 /\ x[1] = 1
      /\ \A k : k \in RunHeads(image) /\ k <= N <=> \E i \in 1 .. n : x[i] = k
      /\ s \in Scanned
      /\ Len(s.cac3) = n - 1
      /\ Len(s.data) = IF IsData(s.last) THEN n - 1 ELSE n
      /\ \A i \in 1 .. Len(s.data) : Full(s.data[i])
      /\ \A i \in 1 .. n - 1 : /\ s.cac3[i].total_sz = 0
                               /\ Apart(image, x[i], x[i + 1], s.data[i], s.cac3[i])
      /\ IsData(s.last) => Full(s.acc)
  BY <1>6 DEF Walked, N
<1> HIDE DEF n, s
<1>8. /\ s \in [last : {"none", "raw", "fill", "hole"}, acc : Totals,
                data : Seq(Totals), cac3 : Seq(Totals)]
      /\ s.acc \in Totals /\ s.data \in Seq(Totals) /\ s.cac3 \in Seq(Totals)
  BY <1>7 DEF Scanned
<1>9. \A k : k \in RunHeads(image) <=> \E i \in 1 .. n : x[i] = k
  <2>1. \A k \in RunHeads(image) : k <= N
    BY DEF RunHeads, N
  <2>2. QED
    BY <1>7, <2>1, Zenon
<1>10. /\ z.cac3 = s.cac3 /\ z.data \in Seq(Totals) /\ Len(z.data) = n
       /\ \A i \in 1 .. n : Full(z.data[i])
       /\ \A i \in 1 .. n - 1 : z.data[i] = s.data[i]
  <2>1. CASE IsData(s.last)
    <3>1. z.cac3 = s.cac3 /\ z.data = Append(s.data, s.acc)
      BY <1>8, <2>1 DEF CloseLast
    <3> HIDE DEF z, Totals
    <3>2. /\ z.data \in Seq(Totals) /\ Len(z.data) = n /\ z.data[n] = s.acc
          /\ \A i \in 1 .. n - 1 : z.data[i] = s.data[i]
      BY <1>7, <1>8, <2>1, <3>1
    <3>3. \A i \in 1 .. n : i \in 1 .. n - 1 \/ i = n
      BY <1>7
    <3>4. QED
      BY <1>7, <2>1, <3>1, <3>2, <3>3
  <2>2. CASE ~IsData(s.last)
    <3>1. z = s
      BY <2>2 DEF CloseLast
    <3> HIDE DEF z
    <3>2. QED
      BY <1>7, <1>8, <2>2, <3>1
  <2>3. QED
    BY <2>1, <2>2
<1>11. Scan(image) = z
  BY <1>2 DEF s
<1> HIDE DEF z
<1>12. Found(image, z, x)
  BY <1>7, <1>8, <1>9, <1>10 DEF Found, n, N
<1>13. QED
  BY <1>11, <1>12

\* The runs that are programmed are the pieces the image consists of, each at its place
\* and from its part of the file.  The holes are counted in blocks of eight sectors.
LEMMA RunsArePieces ==
  ASSUME NEW image, Plain(image), BlockSectors = 8
  PROVE  /\ Len(Runs(image)) \in Nat /\ Len(Runs(image)) > 0
         /\ {Piece(Runs(image)[g]) : g \in 1 .. Len(Runs(image))} = Pieces(image)
<1> DEFINE s == Scan(image)
           r == Runs(image)
<1>1. PICK x : Found(image, s, x)
  BY ScanFinds
<1> DEFINE n == Len(x)
<1>2. /\ x \in Seq(1 .. Len(image)) /\ n \in Nat /\ n > 0 /\ x[1] = 1
      /\ \A k : k \in RunHeads(image) <=> \E i \in 1 .. n : x[i] = k
      /\ s.data \in Seq(Totals) /\ s.cac3 \in Seq(Totals)
      /\ Len(s.cac3) = n - 1 /\ Len(s.data) = n
      /\ \A i \in 1 .. n : Full(s.data[i])
      /\ \A i \in 1 .. n - 1 : /\ s.cac3[i].total_sz = 0
                               /\ Apart(image, x[i], x[i + 1], s.data[i], s.cac3[i])
  BY <1>1 DEF Found
<1>3. image \in Seq(SparseChunk)
  BY DEF Plain
<1>4. /\ r \in Seq(RunRecord) /\ Len(r) = Len(s.data)
      /\ \A i \in 1 .. Len(r) : r[i].size = s.data[i].total_sz
      /\ \A i \in 1 .. Len(r) : r[i] = RunAt(s, r[i - 1], i)
  BY <1>3, RunsLoop
<1> HIDE DEF s, r, n
<1>5. \A i \in 1 .. n : x[i] \in 1 .. Len(image) /\ s.data[i] \in Totals /\ r[i] \in RunRecord
  BY <1>2, <1>4 DEF n
<1> DEFINE At(i) == r[i].start = Place(image, x[i]) /\ r[i].offset = Offset(image, x[i])
           T == {i \in Nat : i + 1 <= n => At(i + 1)}
<1>6. 0 \in T
  <2>1. 1 \in 1 .. n
    BY <1>2
  <2>2. r[1] = RunAt(s, r[1 - 1], 1)
    BY <1>2, <1>4, <2>1
  <2>3. r[1].start = 0 /\ r[1].offset = FileHeader
    BY <2>2 DEF RunAt
  <2>4. Place(image, x[1]) = 0 /\ Offset(image, x[1]) = FileHeader
    BY <1>2, <1>3, <1>5, <2>1, Places
  <2>5. QED
    BY <2>3, <2>4
<1>7. ASSUME NEW i \in T PROVE i + 1 \in T
  <2>1. i \in Nat
    BY <1>7
  <2>2. ASSUME (i + 1) + 1 <= n PROVE At((i + 1) + 1)
    <3> DEFINE l == i + 1
               d == s.data[l]
               h == s.cac3[l]
    <3>1. l \in 1 .. n - 1 /\ l \in 1 .. n /\ l + 1 \in 1 .. n /\ (l + 1) - 1 = l /\ l + 1 # 1
      BY <1>2, <2>1, <2>2
    <3>2. At(l)
      BY <1>7, <2>1, <2>2, <3>1
    <3> HIDE DEF l
    <3>3. r[l + 1] = RunAt(s, r[l], l + 1) /\ r[l].size = d.total_sz
      BY <1>2, <1>4, <3>1
    <3>4. HoleAfter(s, l) = h /\ h \in Totals /\ d \in Totals /\ Full(d) /\ h.total_sz = 0
      <4>1. l \in DOMAIN s.cac3 /\ h \in Totals
        BY <1>2, <3>1
      <4>2. QED
        BY <1>2, <1>5, <3>1, <4>1 DEF HoleAfter
    <3>5. /\ r[l + 1].start = r[l].start + Sectors(r[l].size) + h.chunk_sz * 8
          /\ r[l + 1].offset = r[l].offset + d.total_sz + d.count * ChunkHeader
                                 + h.count * ChunkHeader
      BY <3>1, <3>3, <3>4 DEF RunAt, NextRun
    <3>6. Sectors(r[l].size) = Reach(d) /\ Reach(d) \in Nat
      BY <3>3, <3>4, WholeSectors
    <3>7. h.chunk_sz * 8 = Reach(h)
      BY DEF Reach
    <3>8. Apart(image, x[l], x[l + 1], d, h)
      BY <1>2, <3>1
    <3>9. r[l + 1].start = Place(image, x[l + 1])
      BY <3>2, <3>5, <3>6, <3>7, <3>8 DEF Apart
    <3> DEFINE o == r[l].offset
               a == d.count * ChunkHeader
               b == h.count * ChunkHeader
               u == d.total_sz
    <3>10. o \in Nat /\ a \in Nat /\ b \in Nat /\ u \in Nat
      <4>1. d.count \in Nat /\ h.count \in Nat /\ u \in Nat /\ ChunkHeader \in Nat
        BY <3>4, SparseAssumption DEF Totals
      <4>2. o \in Nat
        BY <1>5, <3>1 DEF RunRecord
      <4>3. QED
        BY <4>1, <4>2
    <3>11. Bytes(d) = u + a /\ Bytes(h) = h.total_sz + b
      BY DEF Bytes
    <3>12. r[l + 1].offset = o + u + a + b
      BY <3>5
    <3>13. Offset(image, x[l + 1]) = o + (u + a) + (0 + b)
      BY <3>2, <3>4, <3>8, <3>11 DEF Apart
    <3> HIDE DEF o, a, b, u
    <3>14. o + u + a + b = o + (u + a) + (0 + b)
      BY <3>10
    <3>15. QED
      BY <3>9, <3>12, <3>13, <3>14 DEF l
  <2>3. QED
    BY <2>1, <2>2
<1>8. T = Nat
  <2> HIDE DEF T
  <2>1. T \in SUBSET Nat
    BY DEF T
  <2>2. QED
    BY <1>6, <1>7, <2>1, Induct
<1>9. ASSUME NEW i \in 1 .. n PROVE At(i)
  <2>1. i - 1 \in Nat /\ (i - 1) + 1 = i /\ i <= n
    BY <1>2
  <2>2. i - 1 \in T
    BY <1>8, <2>1
  <2>3. QED
    BY <2>1, <2>2
<1>10. \A i \in 1 .. n : Piece(r[i]) = [start |-> Place(image, x[i]), offset |-> Offset(image, x[i])]
  BY <1>9 DEF Piece
<1>11. {Piece(r[g]) : g \in 1 .. n} = Pieces(image)
  <2> DEFINE W(k) == [start |-> Place(image, k), offset |-> Offset(image, k)]
  <2>1. Pieces(image) = {W(k) : k \in RunHeads(image)}
    BY DEF Pieces
  <2>2. \A i \in 1 .. n : Piece(r[i]) = W(x[i]) /\ x[i] \in RunHeads(image)
    BY <1>2, <1>10
  <2>3. \A k \in RunHeads(image) : \E i \in 1 .. n : x[i] = k
    BY <1>2
  <2> HIDE DEF W
  <2>4. QED
    BY <2>1, <2>2, <2>3
<1>12. Len(r) = n
  BY <1>2, <1>4
<1>13. QED
  BY <1>2, <1>11, <1>12 DEF r

-----------------------------------------------------------------------------
(* What the flash holds. *)

\* Commands in the order firehose_main sends them: nothing is erased after
\* something was programmed, the reset comes after both, and no partition is
\* programmed twice; on NAND, SBL comes after the other partitions.
InTurn(j, c, d) ==
  /\ c.type = "program" => d.type # "erase"
  /\ c.type = "reset" => d.type # "program"
  /\ c.type = "program" /\ d.type = "program" => c.part # d.part
  /\ j.nand /\ c.type = "program" /\ c.part = 0 => d.type # "program"

Ordered(j, p) ==
  /\ \A k, l \in 1 .. Len(p) : k < l => InTurn(j, p[k], p[l])
  /\ j.nand /\ (\E i \in 1 .. Len(j.table) : FirstErase(j.table[i])) =>
       Len(p) > 1 /\ p[2].type = "erase" /\ p[2].part = 0

PieceRecord == [start : Nat, offset : Nat]
PiecesOf(c) == {Piece(c.runs[g]) : g \in 1 .. Len(c.runs)}

\* A program command has done its work: its runs are in flash.
Complete(c, f) ==
  /\ Len(c.runs) > 0 => ~f[c.part].old
  /\ PiecesOf(c) \subseteq f[c.part].pieces

FlashTypes == flash \in [Partition -> [old : BOOLEAN, pieces : SUBSET PieceRecord]]

\* What the module works on is what the main thread works on.
Busy ==
  /\ dev.mode # "idle" => /\ dev.type = Now.type /\ dev.part = Now.part
                          /\ group < Len(Now.runs) /\ dev.run = Run
  /\ dev.mode = "raw" => dev.type = "program"

\* Nothing in flash comes from elsewhere.
Unmixed ==
  \A p \in Partition : \A x \in flash[p].pieces :
    \E k \in 1 .. Len(plan) : /\ plan[k].type = "program" /\ plan[k].part = p
                              /\ x \in PiecesOf(plan[k])

\* The commands before this one have done their work.
Over(c, f) ==
  /\ c.type = "program" => Complete(c, f)
  /\ c.type = "erase" => ~f[c.part].old
Passed == \A k \in 1 .. at - 1 : Over(plan[k], flash)

\* So have the runs before this one, of which this one may be the same piece.
Underway ==
  Now.type = "program" =>
    \A g \in 1 .. group :
       /\ ~flash[Now.part].old
       /\ \/ Piece(Now.runs[g]) \in flash[Now.part].pieces
          \/ group < Len(Now.runs) /\ Piece(Now.runs[g]) = Piece(Run)

\* An ACK under way speaks of work that is done.
Earned(r, phase, c, run, f) ==
  r.ack => /\ phase \in {"answer", "answer2"} /\ c.type = "erase" => f[c.part] = Erasure
           /\ phase = "written" => Piece(run) \in f[c.part].pieces
Arriving == {sk[i] : i \in 1 .. Len(sk)} \cup {usb[i] : i \in Responses(usb)}
AcksEarned == \A r \in Arriving : Earned(r, pc, Now, Run, flash)

Landed ==
  /\ pc = "written" => ~flash[Now.part].old
  /\ pc \in {"bye", "done"} => Now.type = "reset"

FlashInvariant ==
  /\ FlashTypes /\ Busy /\ Unmixed /\ Passed /\ Underway /\ AcksEarned /\ Landed

\* On NAND with SBL erased first: SBL goes before the rest, and comes back after it.
Early(n) ==
  \E k \in n .. Len(plan) : \/ plan[k].type = "erase"
                            \/ plan[k].type = "program" /\ plan[k].part # 0
SblFirst == flash[0].old => \A p \in Partition : flash[p].old
SblGone == at > 2 /\ Early(at) => flash[0].pieces = {}
SblOver ==
  flash[0].pieces # {} =>
    \A k \in 1 .. Len(plan) :
      plan[k].type = "program" /\ plan[k].part # 0 => Complete(plan[k], flash)
SblInvariant == job.nand /\ ErasesSbl => SblFirst /\ SblGone /\ SblOver

\* The plan is that of the job.
Bound == job \in Jobs /\ plan = Schedule(job) /\ Ordered(job, plan)

\* Both invariants.
BothInv == FlashInvariant /\ SblInvariant

\* A step that leaves flash and the place in the plan alone.
LEMMA Steady ==
  ASSUME BothInv, UNCHANGED <<job, plan, flash, at, group>>, Busy',
         \/ pc' \in {pc} \ {"answer", "answer2", "written"}
         \/ pc' \in {"drain", "send", "again", "image", "failed", "idle"}
         \/ pc' \in {"bye", "done"} /\ Now.type = "reset"
         \/ pc' = pc /\ Arriving' \subseteq Arriving
         \/ pc' \in {"answer", "answer2"} /\ Arriving' = {}
  PROVE  BothInv'
<1>1. Now' = Now /\ Run' = Run
  BY DEF Now, Run
<1>2. FlashTypes' /\ Unmixed' /\ Passed' /\ Underway'
  BY <1>1 DEF BothInv, FlashInvariant, FlashTypes, Unmixed, Passed, Underway
<1>3. Landed'
  BY <1>1 DEF BothInv, FlashInvariant, Landed
<1>4. AcksEarned'
  <2>1. ASSUME pc' \notin {"answer", "answer2", "written"} PROVE AcksEarned'
    BY <2>1 DEF AcksEarned, Earned
  <2>2. ASSUME pc' = pc, Arriving' \subseteq Arriving PROVE AcksEarned'
    <3>1. \A r \in Arriving' : Earned(r, pc, Now, Run, flash)
      BY <2>2 DEF AcksEarned, BothInv, FlashInvariant
    <3>2. QED
      BY <1>1, <2>2, <3>1 DEF AcksEarned
  <2>3. ASSUME Arriving' = {} PROVE AcksEarned'
    BY <2>3 DEF AcksEarned
  <2>4. QED
    BY <2>1, <2>2, <2>3
<1>5. SblInvariant'
  BY DEF BothInv, SblInvariant, SblFirst, SblGone, SblOver, Early, ErasesSbl, Table
<1>6. QED
  BY <1>2, <1>3, <1>4, <1>5 DEF BothInv, FlashInvariant

\* What arrives, in a step of the messages only.
LEMMA Arrivals ==
  ASSUME FirehoseInv
  PROVE  /\ Quiet => Arriving = {}
         /\ Chatter => Arriving' \subseteq Arriving
         /\ \A k \in 1 .. Len(usb) : ReadUsb(k) => Arriving' \subseteq Arriving
<1>1. usb \in Seq(Message) /\ sk \in Seq(Answer) /\ Len(sk) \in Nat
  BY DEF FirehoseInv, FirehoseTypes
<1>2. Quiet => Arriving = {}
  BY DEF Quiet, Arriving
<1>3. ASSUME Chatter PROVE Arriving' \subseteq Arriving
  <2>1. PICK m \in {Log, Junk} : usb' = Append(usb, m) /\ sk' = sk
    BY <1>3 DEF Chatter, Say
  <2>2. m \in Message /\ m.kind # "response"
    BY <2>1, Messages
  <2>3. /\ Responses(usb') = Responses(usb) /\ \A i \in Responses(usb) : usb'[i] = usb[i]
    BY <1>1, <2>1, <2>2, Added
  <2>4. QED
    BY <2>1, <2>3 DEF Arriving
<1>4. ASSUME NEW k \in 1 .. Len(usb), ReadUsb(k) PROVE Arriving' \subseteq Arriving
  <2> DEFINE b == SubSeq(usb, 1, k)
  <2>1. usb' = SubSeq(usb, k + 1, Len(usb))
    BY <1>4 DEF ReadUsb
  <2>2. /\ \A i \in Responses(b) : i \in Responses(usb) /\ b[i] = usb[i]
        /\ \A i \in Responses(usb') : i + k \in Responses(usb) /\ usb'[i] = usb[i + k]
    BY <1>1, <2>1, Cut
  <2>3. sk' = sk \/ \E i \in Responses(b) : sk' = Append(sk, b[i])
    BY <1>4 DEF ReadUsb
  <2> HIDE DEF b
  <2>4. \A i \in Responses(usb') : usb'[i] \in Arriving
    BY <2>2 DEF Arriving
  <2>5. \A i \in 1 .. Len(sk') : sk'[i] \in Arriving
    <3>1. CASE sk' = sk
      BY <3>1 DEF Arriving
    <3>2. ASSUME NEW j \in Responses(b), sk' = Append(sk, b[j]), NEW i \in 1 .. Len(sk')
          PROVE  sk'[i] \in Arriving
      <4>1. b[j] \in Arriving
        BY <2>2, <3>2 DEF Arriving
      <4>2. Len(sk') = Len(sk) + 1
        BY <1>1, <3>2
      <4>3. i \in 1 .. Len(sk) \/ i = Len(sk) + 1
        BY <1>1, <3>2, <4>2
      <4>4. i \in 1 .. Len(sk) => sk'[i] = sk[i]
        BY <1>1, <3>2
      <4>5. i = Len(sk) + 1 => sk'[i] = b[j]
        BY <1>1, <3>2
      <4>6. QED
        BY <4>1, <4>3, <4>4, <4>5 DEF Arriving
    <3>3. QED
      BY <2>3, <3>1, <3>2
  <2>6. QED
    BY <2>4, <2>5 DEF Arriving
<1>5. QED
  BY <1>2, <1>3, <1>4

\* The main thread and the reader, where no work is done.
LEMMA QuietSteps ==
  ASSUME FirehoseInv, BothInv,
         \/ Drain \/ Send \/ TimedOut \/ Chatter \/ SecondAnswer
         \/ \E k \in 1 .. Len(usb) : ReadUsb(k)
  PROVE  BothInv'
<1>0. Busy
  BY DEF BothInv, FlashInvariant
<1>1. CASE Drain
  <2>1. UNCHANGED <<job, plan, flash, at, group, dev>> /\ pc \in {"drain", "bye"}
        /\ (pc' = pc \/ pc' = "send" \/ (pc' = "done" /\ pc = "bye"))
    BY <1>1 DEF Drain
  <2>2. pc = "bye" => Now.type = "reset"
    BY DEF BothInv, FlashInvariant, Landed
  <2>3. Busy'
    BY <1>0, <2>1 DEF Busy, Now, Run
  <2>4. QED
    BY <2>1, <2>2, <2>3, Steady
<1>2. CASE Send
  <2>1. /\ UNCHANGED <<job, plan, flash, at, group, sk, usb>> /\ pc \in {"send", "again"}
        /\ pc' \in {"answer", "answer2"} /\ group < Len(Now.runs)
        /\ \/ dev' = [dev EXCEPT !.mode = "cmd", !.type = Now.type, !.part = Now.part, !.run = Run]
           \/ dev' = dev
    BY <1>2 DEF Send
  <2>2. dev \in Device
    BY DEF FirehoseInv, FirehoseTypes
  <2>3. Busy'
    <3>1. CASE dev' = dev
      BY <1>0, <2>1, <3>1 DEF Busy, Now, Run
    <3>2. CASE dev' = [dev EXCEPT !.mode = "cmd", !.type = Now.type, !.part = Now.part, !.run = Run]
      <4>1. dev'.mode = "cmd" /\ dev'.type = Now.type /\ dev'.part = Now.part /\ dev'.run = Run
        BY <2>2, <3>2 DEF Device
      <4>2. QED
        BY <2>1, <4>1 DEF Busy, Now, Run
    <3>3. QED
      BY <2>1, <3>1, <3>2
  <2>4. Quiet
    BY <2>1 DEF FirehoseInv, Turns
  <2>5. Arriving' = {}
    BY <2>1, <2>4 DEF Quiet, Arriving
  <2>6. QED
    BY <2>1, <2>3, <2>5, Steady
<1>3. CASE TimedOut
  <2>1. UNCHANGED <<job, plan, flash, at, group, dev>> /\ pc' = "failed"
    BY <1>3 DEF TimedOut
  <2>2. Busy'
    BY <1>0, <2>1 DEF Busy, Now, Run
  <2>3. QED
    BY <2>1, <2>2, Steady
<1>4. CASE Chatter
  <2>1. UNCHANGED <<job, plan, flash, at, group, dev, pc>>
    BY <1>4 DEF Chatter, host
  <2>2. Busy'
    BY <1>0, <2>1 DEF Busy, Now, Run
  <2>3. QED
    BY <1>4, <2>1, <2>2, Arrivals, Steady
<1>5. CASE SecondAnswer
  <2>1. UNCHANGED <<job, plan, flash, at, group, dev, pc>> /\ pc = "bye"
    BY <1>5 DEF SecondAnswer, host
  <2>2. Busy'
    BY <1>0, <2>1 DEF Busy, Now, Run
  <2>3. QED
    BY <2>1, <2>2, Steady
<1>6. ASSUME NEW k \in 1 .. Len(usb), ReadUsb(k) PROVE BothInv'
  <2>1. UNCHANGED <<job, plan, flash, at, group, dev, pc>>
    BY <1>6 DEF ReadUsb, host
  <2>2. Busy'
    BY <1>0, <2>1 DEF Busy, Now, Run
  <2>3. QED
    BY <1>6, <2>1, <2>2, Arrivals, Steady
<1>7. QED
  BY <1>1, <1>2, <1>3, <1>4, <1>5, <1>6

\* A call of the tool begins.
LEMMA BeginAgain ==
  ASSUME BothInv, UNCHANGED <<job, plan, flash>>, at' = 1, group' = 0, pc' \in {"idle", "drain"},
         NEW l, dev' = Idle(l)
  PROVE  BothInv'
<1>1. Busy'
  BY DEF Busy, Idle
<1>2. Passed' /\ Underway'
  BY DEF Passed, Underway
<1>3. FlashTypes' /\ Unmixed'
  BY DEF BothInv, FlashInvariant, FlashTypes, Unmixed
<1>4. AcksEarned' /\ Landed'
  BY DEF AcksEarned, Earned, Landed
<1>5. SblInvariant'
  BY DEF BothInv, SblInvariant, SblFirst, SblGone, SblOver, Early, ErasesSbl, Table
<1>6. QED
  BY <1>1, <1>2, <1>3, <1>4, <1>5 DEF BothInv, FlashInvariant

\* On to the next command when this one has done its work.
LEMMA MoveOn ==
  ASSUME FirehoseInv, BothInv, Bound, UNCHANGED <<job, plan, flash, dev>>,
         at' = at + 1, group' = 0, pc' = "send", dev.mode = "idle",
         Over(Now, flash), Now.type = "erase" => flash[Now.part] = Erasure
  PROVE  BothInv'
<1>0. at \in Nat /\ at >= 1 /\ Len(plan) \in Nat /\ at <= Len(plan)
  BY AtWork
<1>1. Busy' /\ AcksEarned' /\ Landed' /\ Underway'
  BY DEF Busy, AcksEarned, Earned, Landed, Underway
<1>2. FlashTypes' /\ Unmixed'
  BY DEF BothInv, FlashInvariant, FlashTypes, Unmixed
<1>3. Passed'
  <2>1. ASSUME NEW k \in 1 .. at' - 1 PROVE Over(plan[k], flash)
    <3>1. k = at \/ k \in 1 .. at - 1
      BY <1>0, <2>1
    <3>2. QED
      BY <3>1 DEF BothInv, FlashInvariant, Passed, Now
  <2>2. QED
    BY <2>1 DEF Passed
<1>4. SblInvariant'
  <2> SUFFICES ASSUME job.nand, ErasesSbl PROVE SblFirst' /\ SblGone' /\ SblOver'
    BY DEF SblInvariant, ErasesSbl, Table
  <2>1. SblFirst /\ SblGone /\ SblOver
    BY DEF BothInv, SblInvariant
  <2>2. SblFirst' /\ SblOver'
    BY <2>1 DEF SblFirst, SblOver
  <2>3. ASSUME at' > 2, Early(at)' PROVE flash[0].pieces = {}
    <3>1. CASE at > 2
      <4>1. PICK k \in at + 1 .. Len(plan) : \/ plan[k].type = "erase"
                                             \/ plan[k].type = "program" /\ plan[k].part # 0
        BY <2>3 DEF Early
      <4>2. k \in at .. Len(plan)
        BY <1>0, <4>1
      <4>3. QED
        BY <2>1, <3>1, <4>1, <4>2 DEF SblGone, Early
    <3>2. CASE at = 2
      <4>1. Now.type = "erase" /\ Now.part = 0
        BY <3>2 DEF Bound, Ordered, ErasesSbl, Table, Now
      <4>2. QED
        BY <4>1 DEF Erasure
    <3>3. QED
      BY <1>0, <2>3, <3>1, <3>2
  <2>4. QED
    BY <2>2, <2>3 DEF SblGone
<1>5. QED
  BY <1>1, <1>2, <1>3, <1>4 DEF BothInv, FlashInvariant

\* fh_process_program has sent all its runs.
LEMMA SkipOver ==
  ASSUME FirehoseInv, BothInv, Bound, Skip
  PROVE  BothInv'
<1>1. /\ pc = "send" /\ group = Len(Now.runs) /\ at' = at + 1 /\ group' = 0 /\ pc' = "send"
      /\ UNCHANGED <<job, plan, flash, dev>>
  BY DEF Skip
<1>2. dev.mode = "idle"
  BY <1>1 DEF FirehoseInv, Turns
<1>3. Now.type = "program"
  <2>1. Now.type # "program" => group = 0 /\ Len(Now.runs) = 1
    BY AtWork DEF FirehoseInv, Working
  <2>2. Now.type # "program" => 0 = 1
    BY <1>1, <2>1, Zenon
  <2>3. QED
    BY <2>2
<1>4. Complete(Now, flash)
  <2>1. /\ Len(Now.runs) \in Nat /\ Underway
    BY AtWork DEF BothInv, FlashInvariant
  <2>2. \A g \in 1 .. Len(Now.runs) : /\ ~flash[Now.part].old
                                      /\ Piece(Now.runs[g]) \in flash[Now.part].pieces
    BY <1>1, <1>3, <2>1 DEF Underway
  <2>3. Len(Now.runs) > 0 => 1 \in 1 .. Len(Now.runs)
    BY <2>1
  <2>4. QED
    BY <2>2, <2>3 DEF Complete, PiecesOf
<1>5. QED
  BY <1>1, <1>2, <1>3, <1>4, MoveOn DEF Over

\* The answer to a command.
LEMMA ReceiveOver ==
  ASSUME FirehoseInv, BothInv, Bound, Receive
  PROVE  BothInv'
<1> DEFINE r == Head(sk)
<1>1. /\ pc \in {"answer", "answer2"} /\ sk # <<>> /\ Answered(r)
      /\ UNCHANGED <<job, plan, flash, dev>>
  BY DEF Receive
<1>2. r \in Answer /\ dev.mode \in {"idle", "raw"}
  BY <1>1, InHand
<1>3. dev.mode = "raw" => Now.type = "program"
  BY <1>1 DEF FirehoseInv, Turns
<1>4. r \in Arriving
  <2>1. sk \in Seq(Answer)
    BY DEF FirehoseInv, FirehoseTypes
  <2>2. r = sk[1] /\ 1 \in 1 .. Len(sk)
    BY <1>1, <2>1
  <2>3. QED
    BY <2>2 DEF Arriving
<1>5. r.ack /\ Now.type = "erase" => flash[Now.part] = Erasure
  BY <1>1, <1>4 DEF BothInv, FlashInvariant, AcksEarned, Earned
<1> HIDE DEF r
<1>6. Busy
  BY DEF BothInv, FlashInvariant
<1>7. ASSUME UNCHANGED <<at, group>>, \/ pc' \in {"again", "failed", "image"}
                                      \/ pc' = "bye" /\ Now.type = "reset"
      PROVE BothInv'
  <2>1. Busy'
    BY <1>1, <1>6, <1>7 DEF Busy, Now, Run
  <2>2. QED
    BY <1>1, <1>7, <2>1, Steady
<1>8. ASSUME ~Refused(r), Now.type \notin {"program", "reset"}, NextCommand
      PROVE  BothInv'
  <2>1. dev.mode = "idle" /\ at' = at + 1 /\ group' = 0 /\ pc' = "send"
    BY <1>2, <1>3, <1>8 DEF NextCommand
  <2>2. Now.type = "erase" => r.ack
    BY <1>8 DEF Refused
  <2>3. Over(Now, flash) /\ (Now.type = "erase" => flash[Now.part] = Erasure)
    BY <1>5, <1>8, <2>2 DEF Over, Erasure
  <2>4. QED
    BY <1>1, <2>1, <2>3, MoveOn
<1>9. QED
  BY <1>1, <1>7, <1>8 DEF Answered

\* The answer after an image.
LEMMA WrittenOver ==
  ASSUME FirehoseInv, BothInv, Written
  PROVE  BothInv'
<1> DEFINE r == Head(sk)
<1>1. /\ pc = "written" /\ sk # <<>> /\ UNCHANGED <<job, plan, flash, dev, at>>
      /\ IF r.ack /\ ~r.raw THEN group' = group + 1 /\ pc' = "send"
         ELSE pc' = "failed" /\ UNCHANGED group
  BY DEF Written
<1>2. dev.mode = "idle"
  BY <1>1, InHand
<1>3. r \in Arriving
  <2>1. sk \in Seq(Answer)
    BY DEF FirehoseInv, FirehoseTypes
  <2>2. r = sk[1] /\ 1 \in 1 .. Len(sk)
    BY <1>1, <2>1
  <2>3. QED
    BY <2>2 DEF Arriving
<1> HIDE DEF r
<1>4. Busy'
  BY <1>1, <1>2 DEF Busy
<1>5. CASE pc' = "failed" /\ UNCHANGED group
  BY <1>1, <1>4, <1>5, Steady
<1>6. CASE r.ack /\ group' = group + 1 /\ pc' = "send"
  <2>1. Piece(Run) \in flash[Now.part].pieces /\ ~flash[Now.part].old
    BY <1>1, <1>3, <1>6 DEF BothInv, FlashInvariant, AcksEarned, Earned, Landed
  <2>2. group \in Nat /\ Underway /\ Now' = Now
    BY <1>1 DEF BothInv, FlashInvariant, FirehoseInv, FirehoseTypes, Now
  <2>3. Underway'
    <3> SUFFICES ASSUME Now.type = "program", NEW g \in 1 .. group + 1
                 PROVE  /\ ~flash[Now.part].old
                        /\ Piece(Now.runs[g]) \in flash[Now.part].pieces
      BY <1>1, <1>6, <2>2 DEF Underway
    <3>1. g = group + 1 \/ g \in 1 .. group
      BY <2>2
    <3>2. QED
      BY <2>1, <2>2, <3>1 DEF Underway, Run
  <2>4. FlashTypes' /\ Unmixed' /\ Passed'
    BY <1>1 DEF BothInv, FlashInvariant, FlashTypes, Unmixed, Passed
  <2>5. AcksEarned' /\ Landed'
    BY <1>6 DEF AcksEarned, Earned, Landed
  <2>6. SblInvariant'
    BY <1>1 DEF BothInv, SblInvariant, SblFirst, SblGone, SblOver, Early, ErasesSbl, Table
  <2>7. QED
    BY <1>4, <2>3, <2>4, <2>5, <2>6 DEF BothInv, FlashInvariant
<1>7. QED
  BY <1>1, <1>5, <1>6

\* On NAND the erase of SBL comes before whatever changes the flash.
LEMMA AfterSbl ==
  ASSUME FirehoseInv, BothInv, Bound, job.nand, ErasesSbl, Now.type \in {"erase", "program"}
  PROVE  \/ at = 2 /\ Now.type = "erase" /\ Now.part = 0
         \/ at > 2 /\ ~flash[0].old
<1>1. at \in Nat /\ at >= 1 /\ Len(plan) \in Nat /\ at <= Len(plan)
  BY AtWork
<1>2. at # 1
  BY DEF FirehoseInv, FirehoseTypes, Sensible, Now
<1>3. plan[2].type = "erase" /\ plan[2].part = 0
  BY DEF Bound, Ordered, ErasesSbl, Table
<1>4. CASE at = 2
  BY <1>3, <1>4 DEF Now
<1>5. CASE at > 2
  <2>1. 2 \in 1 .. at - 1
    BY <1>1, <1>5
  <2>2. Over(plan[2], flash)
    BY <2>1 DEF BothInv, FlashInvariant, Passed
  <2>3. QED
    BY <1>3, <1>5, <2>2 DEF Over
<1>6. QED
  BY <1>1, <1>2, <1>4, <1>5

\* The parts of the invariants that are about the flash alone.
Contents == FlashTypes /\ Unmixed /\ Passed /\ Underway /\ SblInvariant

\* The module erases.
LEMMA Erased ==
  ASSUME FirehoseInv, BothInv, Bound, dev.mode # "idle", dev.type = "erase",
         UNCHANGED <<job, plan, at, group>>, flash' = WithoutErased
  PROVE  /\ Contents' /\ flash'[Now.part] = Erasure
         /\ \A p \in Partition : ~flash[p].old => ~flash'[p].old
<1>0. at \in Nat /\ at >= 1 /\ Len(plan) \in Nat /\ at <= Len(plan) /\ Now.part \in Partition
  BY AtWork
<1>1. Now.type = "erase" /\ dev.part = Now.part /\ Now' = Now
  BY DEF BothInv, FlashInvariant, Busy, Now
<1>2. FlashTypes
  BY DEF BothInv, FlashInvariant
<1>3. Erasure \in [old : BOOLEAN, pieces : SUBSET PieceRecord] /\ ~Erasure.old /\ Erasure.pieces = {}
  BY DEF Erasure
<1>4. /\ DOMAIN flash' = Partition
      /\ \A p \in Partition : flash'[p] \in {flash[p], Erasure}
      /\ flash'[Now.part] = Erasure
      /\ flash' = [p \in Partition |-> flash'[p]]
  BY <1>0, <1>1 DEF WithoutErased
<1>5. FlashTypes'
  BY <1>2, <1>3, <1>4 DEF FlashTypes
<1>6. Unmixed'
  BY <1>3, <1>4 DEF BothInv, FlashInvariant, Unmixed
<1>7. Passed'
  <2>1. ASSUME NEW k \in 1 .. at - 1 PROVE Over(plan[k], flash')
    <3>1. k \in 1 .. Len(plan) /\ at \in 1 .. Len(plan) /\ k < at
      BY <1>0
    <3>2. plan[k].type # "program"
      BY <1>1, <3>1 DEF Bound, Ordered, InTurn, Now
    <3>3. plan[k].part \in Partition
      <4>1. plan \in Seq(Planned)
        BY DEF FirehoseInv, FirehoseTypes, Sensible
      <4>2. plan[k] \in Planned
        BY <3>1, <4>1
      <4>3. QED
        BY <4>2 DEF Planned
    <3>4. Over(plan[k], flash)
      BY DEF BothInv, FlashInvariant, Passed
    <3>5. QED
      BY <1>3, <1>4, <3>2, <3>3, <3>4 DEF Over
  <2>2. QED
    BY <2>1 DEF Passed
<1>8. Underway'
  BY <1>1 DEF Underway
<1>9. SblInvariant'
  <2> SUFFICES ASSUME job.nand, ErasesSbl PROVE SblFirst' /\ SblGone' /\ SblOver'
    BY DEF SblInvariant, ErasesSbl, Table
  <2>0. 0 \in Partition
    BY Sizes
  <2>1. \/ at = 2 /\ Now.part = 0
        \/ at > 2 /\ ~flash[0].old
    BY <1>1, AfterSbl
  <2>2. ~flash'[0].old
    BY <1>3, <1>4, <2>0, <2>1
  <2>3. flash'[0].pieces = {}
    <3>1. CASE at = 2 /\ Now.part = 0
      BY <1>3, <1>4, <3>1
    <3>2. CASE at > 2
      <4>1. Early(at)
        <5>1. at \in at .. Len(plan)
          BY <1>0
        <5>2. QED
          BY <1>1, <5>1 DEF Early, Now
      <4>2. flash[0].pieces = {}
        BY <3>2, <4>1 DEF BothInv, SblInvariant, SblGone
      <4>3. QED
        BY <1>3, <1>4, <2>0, <4>2
    <3>3. QED
      BY <2>1, <3>1, <3>2
  <2>4. QED
    BY <2>2, <2>3 DEF SblFirst, SblGone, SblOver
<1>10. QED
  BY <1>3, <1>4, <1>5, <1>6, <1>7, <1>8, <1>9 DEF Contents

\* A command that programs works on a partition that no other one does.
LEMMA Alone ==
  ASSUME FirehoseInv, Bound, Now.type = "program"
  PROVE  /\ \A k \in 1 .. at - 1 : plan[k].type = "program" => plan[k].part # Now.part
         /\ job.nand /\ Now.part = 0 =>
              /\ ~Early(at)
              /\ \A k \in 1 .. Len(plan) :
                   plan[k].type = "program" /\ plan[k].part # 0 => k \in 1 .. at - 1
<1>1. at \in Nat /\ at >= 1 /\ Len(plan) \in Nat /\ at <= Len(plan)
  BY AtWork
<1>2. at \in 1 .. Len(plan) /\ Now = plan[at]
  BY <1>1 DEF Now
<1>3. \A k, l \in 1 .. Len(plan) : k < l => InTurn(job, plan[k], plan[l])
  BY DEF Bound, Ordered
<1>4. ASSUME NEW k \in 1 .. at - 1, plan[k].type = "program" PROVE plan[k].part # Now.part
  <2>1. k \in 1 .. Len(plan) /\ k < at
    BY <1>1
  <2>2. InTurn(job, plan[k], plan[at])
    BY <1>2, <1>3, <2>1
  <2>3. QED
    BY <1>2, <1>4, <2>2 DEF InTurn
<1>5. ASSUME job.nand, Now.part = 0, NEW k \in 1 .. Len(plan), k > at
      PROVE  plan[k].type \notin {"erase", "program"}
  <2>1. InTurn(job, plan[at], plan[k])
    BY <1>1, <1>2, <1>3, <1>5
  <2>2. QED
    BY <1>2, <1>5, <2>1 DEF InTurn
<1>6. ASSUME job.nand, Now.part = 0, Early(at) PROVE FALSE
  <2>1. PICK k \in at .. Len(plan) : \/ plan[k].type = "erase"
                                     \/ plan[k].type = "program" /\ plan[k].part # 0
    BY <1>6 DEF Early
  <2>2. k \in 1 .. Len(plan) /\ (k = at \/ k > at)
    BY <1>1, <2>1
  <2>3. QED
    BY <1>2, <1>5, <1>6, <2>1, <2>2
<1>7. ASSUME job.nand, Now.part = 0, NEW k \in 1 .. Len(plan), plan[k].type = "program",
             plan[k].part # 0
      PROVE  k \in 1 .. at - 1
  <2>1. k # at /\ ~(k > at)
    BY <1>2, <1>5, <1>7
  <2>2. QED
    BY <1>1, <2>1
<1>8. QED
  BY <1>4, <1>6, <1>7

\* Every command of the plan has a partition.
LEMMA HasPart ==
  ASSUME FirehoseInv, NEW k \in 1 .. Len(plan)
  PROVE  plan[k].part \in Partition
<1>1. plan \in Seq(Planned)
  BY DEF FirehoseInv, FirehoseTypes, Sensible
<1>2. plan[k] \in Planned
  BY <1>1
<1>3. QED
  BY <1>2 DEF Planned

\* A chunk of an image arrives: the piece it belongs to is no longer whole.
LEMMA Overwritten ==
  ASSUME FirehoseInv, BothInv, Bound, dev.mode = "raw",
         UNCHANGED <<job, plan, at, group>>,
         flash' = [flash EXCEPT ![dev.part] =
                     [old |-> FALSE, pieces |-> @.pieces \ {Piece(dev.run)}]]
  PROVE  Contents' /\ ~flash'[Now.part].old
<1>0. /\ at \in Nat /\ at >= 1 /\ Len(plan) \in Nat /\ at <= Len(plan) /\ Now.part \in Partition
      /\ group < Len(Now.runs) => Run \in RunRecord
  BY AtWork
<1>1. Now.type = "program" /\ dev.part = Now.part /\ dev.run = Run /\ group < Len(Now.runs)
      /\ Now' = Now /\ Run' = Run
  BY DEF BothInv, FlashInvariant, Busy, Now, Run
<1> DEFINE here == [old |-> FALSE, pieces |-> flash[Now.part].pieces \ {Piece(Run)}]
<1>2. FlashTypes
  BY DEF BothInv, FlashInvariant
<1>3. /\ flash'[Now.part] = here
      /\ \A p \in Partition : p # Now.part => flash'[p] = flash[p]
      /\ DOMAIN flash' = Partition /\ flash' = [p \in Partition |-> flash'[p]]
  BY <1>0, <1>1, <1>2 DEF FlashTypes
<1>4. /\ here \in [old : BOOLEAN, pieces : SUBSET PieceRecord] /\ ~here.old
      /\ here.pieces = flash[Now.part].pieces \ {Piece(Run)}
  BY <1>0, <1>2 DEF FlashTypes
<1> HIDE DEF here
<1>5. FlashTypes'
  BY <1>2, <1>3, <1>4 DEF FlashTypes
<1>6. \A p \in Partition : /\ flash'[p].pieces \subseteq flash[p].pieces
                           /\ ~flash[p].old => ~flash'[p].old
  BY <1>3, <1>4
<1>7. Unmixed'
  BY <1>6 DEF BothInv, FlashInvariant, Unmixed
<1>8. \A k \in 1 .. Len(plan) : plan[k].part # Now.part => flash'[plan[k].part] = flash[plan[k].part]
  BY <1>3, HasPart
<1>9. Passed'
  <2>1. ASSUME NEW k \in 1 .. at - 1 PROVE Over(plan[k], flash')
    <3>1. k \in 1 .. Len(plan)
      BY <1>0
    <3>2. plan[k].type = "program" => plan[k].part # Now.part
      BY <1>1, Alone
    <3>3. Over(plan[k], flash) /\ plan[k].part \in Partition
      BY <3>1, HasPart DEF BothInv, FlashInvariant, Passed
    <3>4. QED
      BY <1>6, <1>8, <3>1, <3>2, <3>3 DEF Over, Complete
  <2>2. QED
    BY <2>1 DEF Passed
<1>10. Underway'
  <2>1. ASSUME NEW g \in 1 .. group
        PROVE  \/ Piece(Now.runs[g]) \in flash'[Now.part].pieces
               \/ Piece(Now.runs[g]) = Piece(Run)
    <3>1. \/ Piece(Now.runs[g]) \in flash[Now.part].pieces
          \/ Piece(Now.runs[g]) = Piece(Run)
      BY <1>1 DEF BothInv, FlashInvariant, Underway
    <3>2. QED
      BY <1>3, <1>4, <3>1
  <2>2. QED
    BY <1>1, <1>3, <1>4, <2>1 DEF Underway
<1>11. SblInvariant'
  <2> SUFFICES ASSUME job.nand, ErasesSbl PROVE SblFirst' /\ SblGone' /\ SblOver'
    BY DEF SblInvariant, ErasesSbl, Table
  <2>0. 0 \in Partition /\ SblGone /\ SblOver
    BY Sizes DEF BothInv, SblInvariant
  <2>1. at > 2 /\ ~flash[0].old
    BY <1>1, AfterSbl
  <2>2. SblFirst'
    BY <1>6, <2>0, <2>1 DEF SblFirst
  <2>3. SblGone'
    <3>1. Early(at)' => Early(at)
      BY DEF Early
    <3>2. QED
      BY <1>6, <2>0, <3>1 DEF SblGone
  <2>4. SblOver'
    <3>1. CASE Now.part # 0
      <4>1. Early(at)
        <5>1. at \in at .. Len(plan)
          BY <1>0
        <5>2. QED
          BY <1>1, <3>1, <5>1 DEF Early, Now
      <4>2. flash'[0].pieces = {}
        BY <1>6, <2>0, <2>1, <4>1 DEF SblGone
      <4>3. QED
        BY <4>2 DEF SblOver
    <3>2. CASE Now.part = 0
      <4>1. ASSUME flash'[0].pieces # {}, NEW k \in 1 .. Len(plan), plan[k].type = "program",
                   plan[k].part # 0
            PROVE  Complete(plan[k], flash')
        <5>1. flash[0].pieces # {}
          BY <1>6, <2>0, <4>1
        <5>2. Complete(plan[k], flash)
          BY <2>0, <4>1, <5>1 DEF SblOver
        <5>3. QED
          BY <1>8, <3>2, <4>1, <5>2 DEF Complete
      <4>2. QED
        BY <4>1 DEF SblOver
    <3>3. QED
      BY <3>1, <3>2
  <2>5. QED
    BY <2>2, <2>3, <2>4
<1>12. QED
  BY <1>3, <1>4, <1>5, <1>7, <1>9, <1>10, <1>11 DEF Contents

\* The module has all of a run: the piece is whole.
LEMMA Filled ==
  ASSUME FirehoseInv, BothInv, Bound, dev.mode = "raw",
         UNCHANGED <<job, plan, at, group>>,
         flash' = [flash EXCEPT ![dev.part].pieces = @ \cup {Piece(dev.run)}]
  PROVE  /\ Contents' /\ Piece(Run) \in flash'[Now.part].pieces
         /\ flash'[Now.part].old = flash[Now.part].old
<1>0. /\ at \in Nat /\ at >= 1 /\ Len(plan) \in Nat /\ at <= Len(plan) /\ Now.part \in Partition
      /\ Now.runs \in Seq(RunRecord) /\ group \in Nat /\ Len(Now.runs) \in Nat
      /\ group < Len(Now.runs) => Run \in RunRecord
  BY AtWork DEF FirehoseInv, FirehoseTypes
<1>1. Now.type = "program" /\ dev.part = Now.part /\ dev.run = Run /\ group < Len(Now.runs)
      /\ Now' = Now /\ Run' = Run
  BY DEF BothInv, FlashInvariant, Busy, Now, Run
<1>2. FlashTypes
  BY DEF BothInv, FlashInvariant
<1>3. Piece(Run) \in PieceRecord /\ Piece(Run) \in PiecesOf(Now)
  <2>1. group + 1 \in 1 .. Len(Now.runs)
    BY <1>0, <1>1
  <2>2. QED
    BY <1>0, <1>1, <2>1 DEF Piece, PieceRecord, RunRecord, PiecesOf, Run
<1> DEFINE here == [flash[Now.part] EXCEPT !.pieces = @ \cup {Piece(Run)}]
<1>4. /\ flash'[Now.part] = here
      /\ \A p \in Partition : p # Now.part => flash'[p] = flash[p]
      /\ DOMAIN flash' = Partition /\ flash' = [p \in Partition |-> flash'[p]]
  BY <1>0, <1>1, <1>2 DEF FlashTypes
<1>5. /\ here \in [old : BOOLEAN, pieces : SUBSET PieceRecord]
      /\ here.old = flash[Now.part].old
      /\ here.pieces = flash[Now.part].pieces \cup {Piece(Run)}
  <2>1. flash[Now.part] \in [old : BOOLEAN, pieces : SUBSET PieceRecord]
    BY <1>0, <1>2 DEF FlashTypes
  <2> HIDE DEF PieceRecord
  <2>2. QED
    BY <1>3, <2>1
<1> HIDE DEF here
<1>6. FlashTypes'
  BY <1>2, <1>4, <1>5 DEF FlashTypes
<1>7. \A p \in Partition : /\ flash[p].pieces \subseteq flash'[p].pieces
                           /\ flash'[p].old = flash[p].old
  BY <1>4, <1>5
<1>8. Unmixed'
  <2>1. ASSUME NEW p \in Partition, NEW x \in flash'[p].pieces
        PROVE  \E k \in 1 .. Len(plan) : /\ plan[k].type = "program" /\ plan[k].part = p
                                         /\ x \in PiecesOf(plan[k])
    <3>1. CASE x \in flash[p].pieces
      BY <3>1 DEF BothInv, FlashInvariant, Unmixed
    <3>2. CASE x \notin flash[p].pieces
      <4>1. p = Now.part /\ x = Piece(Run)
        BY <1>4, <1>5, <2>1, <3>2
      <4>2. at \in 1 .. Len(plan)
        BY <1>0
      <4>3. QED
        BY <1>1, <1>3, <4>1, <4>2 DEF Now
    <3>3. QED
      BY <3>1, <3>2
  <2>2. QED
    BY <2>1 DEF Unmixed
<1>9. ASSUME NEW k \in 1 .. Len(plan), Complete(plan[k], flash) PROVE Complete(plan[k], flash')
  BY <1>7, <1>9, HasPart DEF Complete
<1>10. Passed'
  <2>1. ASSUME NEW k \in 1 .. at - 1 PROVE Over(plan[k], flash')
    <3>1. k \in 1 .. Len(plan)
      BY <1>0
    <3>2. Over(plan[k], flash) /\ plan[k].part \in Partition
      BY <3>1, HasPart DEF BothInv, FlashInvariant, Passed
    <3>3. QED
      BY <1>7, <1>9, <3>1, <3>2 DEF Over
  <2>2. QED
    BY <2>1 DEF Passed
<1>11. Underway'
  BY <1>0, <1>1, <1>7 DEF BothInv, FlashInvariant, Underway
<1>12. SblInvariant'
  <2> SUFFICES ASSUME job.nand, ErasesSbl PROVE SblFirst' /\ SblGone' /\ SblOver'
    BY DEF SblInvariant, ErasesSbl, Table
  <2>0. 0 \in Partition /\ SblFirst /\ SblGone /\ SblOver
    BY Sizes DEF BothInv, SblInvariant
  <2>1. SblFirst'
    BY <1>7, <2>0 DEF SblFirst
  <2>2. Early(at)' => Early(at)
    BY DEF Early
  <2>3. CASE Now.part # 0
    <3>1. flash'[0] = flash[0]
      BY <1>4, <2>0, <2>3
    <3>2. SblGone'
      BY <2>0, <2>2, <3>1 DEF SblGone
    <3>3. SblOver'
      BY <1>9, <2>0, <3>1 DEF SblOver
    <3>4. QED
      BY <2>1, <3>2, <3>3
  <2>4. CASE Now.part = 0
    <3>1. SblGone'
      BY <1>1, <2>2, <2>4, Alone DEF SblGone
    <3>2. ASSUME NEW k \in 1 .. Len(plan), plan[k].type = "program", plan[k].part # 0
          PROVE  Complete(plan[k], flash')
      <4>1. k \in 1 .. at - 1
        BY <1>1, <2>4, <3>2, Alone
      <4>2. Complete(plan[k], flash)
        BY <3>2, <4>1 DEF BothInv, FlashInvariant, Passed, Over
      <4>3. QED
        BY <1>9, <4>2
    <3>3. SblOver'
      BY <3>2 DEF SblOver
    <3>4. QED
      BY <2>1, <3>1, <3>3
  <2>5. QED
    BY <2>3, <2>4
<1>13. QED
  BY <1>4, <1>5, <1>6, <1>8, <1>10, <1>11, <1>12 DEF Contents

\* A chunk of an image is sent.
LEMMA SendImageOver ==
  ASSUME FirehoseInv, BothInv, Bound, SendImage
  PROVE  BothInv'
<1>1. /\ pc = "image" /\ UNCHANGED <<job, plan, at, group, sk, usb>>
  BY DEF SendImage
<1>2. dev.mode = "raw" /\ Quiet /\ dev \in Device
  BY <1>1 DEF FirehoseInv, FirehoseTypes, Turns
<1>3. Busy /\ Now' = Now /\ Run' = Run
  BY <1>1 DEF BothInv, FlashInvariant, Now, Run
<1>4. CASE pc' = "failed" /\ UNCHANGED <<dev, flash>>
  <2>1. Busy'
    BY <1>1, <1>3, <1>4 DEF Busy
  <2>2. QED
    BY <1>1, <1>4, <2>1, Steady
<1>5. CASE /\ dev' = [dev EXCEPT !.got = @ + Chunk] /\ pc' \in {"written", "image"}
           /\ flash' = [flash EXCEPT ![dev.part] =
                          [old |-> FALSE, pieces |-> @.pieces \ {Piece(dev.run)}]]
  <2>1. Contents' /\ ~flash'[Now.part].old
    BY <1>1, <1>2, <1>5, Overwritten
  <2>2. Busy'
    <3>1. dev'.mode = dev.mode /\ dev'.type = dev.type /\ dev'.part = dev.part /\ dev'.run = dev.run
      BY <1>2, <1>5 DEF Device
    <3>2. QED
      BY <1>1, <1>3, <3>1 DEF Busy
  <2>3. Arriving' = {}
    BY <1>1, <1>2 DEF Quiet, Arriving
  <2>4. AcksEarned' /\ Landed'
    BY <1>3, <1>5, <2>1, <2>3 DEF AcksEarned, Landed
  <2>5. QED
    BY <2>1, <2>2, <2>4 DEF Contents, BothInv, FlashInvariant
<1>6. QED
  BY <1>2, <1>4, <1>5 DEF SendImage

\* The module executes a command.
LEMMA ExecuteOver ==
  ASSUME FirehoseInv, BothInv, Bound, Execute
  PROVE  BothInv'
<1>1. /\ dev.mode = "cmd" /\ UNCHANGED <<job, plan, at, group, pc, sk>>
  BY DEF Execute, host
<1>2. /\ Busy /\ Now' = Now /\ Run' = Run /\ dev \in Device /\ usb \in Seq(Message)
      /\ dev.type = Now.type
  BY <1>1 DEF BothInv, FlashInvariant, Now, Run, FirehoseInv, FirehoseTypes, Busy
<1>3. PICK r \in Answer : /\ usb' = Append(usb, r)
                          /\ r.ack /\ dev.type = "erase" => flash' = WithoutErased
  <2>1. /\ Response(TRUE, dev.type = "program", 0) \in Answer
        /\ \A m \in Payloads \cup {0} : /\ Response(FALSE, FALSE, m) \in Answer
                                        /\ ~Response(FALSE, FALSE, m).ack
    BY DEF Response, Answer, Payloads
  <2>2. dev.limit \in Payloads
    BY <1>2 DEF Device
  <2>3. QED
    BY <2>1, <2>2 DEF Execute, Say
<1>4. /\ Contents'
      /\ dev.type = "erase" /\ flash' = WithoutErased => flash'[Now.part] = Erasure
      /\ pc = "written" => ~flash'[Now.part].old
  <2>0. pc # "written"
    BY <1>1 DEF FirehoseInv, Turns
  <2>1. CASE dev.type = "erase" /\ flash' = WithoutErased
    BY <1>1, <2>0, <2>1, Erased
  <2>2. CASE flash' = flash
    <3>1. FlashTypes' /\ Unmixed' /\ Passed' /\ Underway'
      BY <1>1, <1>2, <2>2 DEF BothInv, FlashInvariant, FlashTypes, Unmixed, Passed, Underway
    <3>2. SblInvariant'
      BY <1>1, <2>2 DEF BothInv, SblInvariant, SblFirst, SblGone, SblOver, Early, ErasesSbl, Table
    <3>3. dev.type = "erase" /\ flash' = WithoutErased => flash'[Now.part] = Erasure
      BY <1>1, <2>1, Erased
    <3>4. QED
      BY <2>0, <3>1, <3>2, <3>3 DEF Contents
  <2>3. QED
    BY <2>1, <2>2 DEF Execute
<1>5. Busy'
  <2>1. /\ dev'.type = dev.type /\ dev'.part = dev.part /\ dev'.run = dev.run
        /\ dev'.mode = "raw" => dev.type = "program"
        /\ dev'.mode # "idle" => dev.mode # "idle"
    BY <1>1, <1>2 DEF Execute, Device
  <2>2. QED
    BY <1>1, <1>2, <2>1 DEF Busy
<1>6. AcksEarned'
  <2>1. CASE pc \notin {"answer", "answer2", "written"}
    BY <1>1, <2>1 DEF AcksEarned, Earned
  <2>2. CASE pc \in {"answer", "answer2", "written"}
    <3>1. Quiet /\ pc # "written"
      BY <1>1, <2>2 DEF FirehoseInv, Turns
    <3>2. Arriving' \subseteq {r}
      <4>1. r \in Message
        BY <1>3, Messages
      <4>2. Responses(usb') \subseteq Responses(usb) \cup {Len(usb) + 1} /\ usb'[Len(usb) + 1] = r
        BY <1>2, <1>3, <4>1, Added, Zenon
      <4>3. QED
        BY <1>1, <3>1, <4>2 DEF Arriving, Quiet
    <3>3. Earned(r, pc, Now, Run, flash')
      BY <1>2, <1>3, <1>4, <3>1 DEF Earned
    <3>4. QED
      BY <1>1, <1>2, <3>2, <3>3 DEF AcksEarned
  <2>3. QED
    BY <2>1, <2>2
<1>7. Landed'
  BY <1>1, <1>2, <1>4 DEF BothInv, FlashInvariant, Landed
<1>8. QED
  BY <1>4, <1>5, <1>6, <1>7 DEF Contents, BothInv, FlashInvariant

\* The module has the sectors of a run.
LEMMA StoreOver ==
  ASSUME FirehoseInv, BothInv, Bound, Store
  PROVE  BothInv'
<1>1. /\ dev.mode = "raw" /\ UNCHANGED <<job, plan, at, group, pc, sk>>
      /\ dev' = [dev EXCEPT !.mode = "idle", !.got = 0]
  BY DEF Store, host
<1>2. /\ Now' = Now /\ Run' = Run /\ dev \in Device /\ usb \in Seq(Message)
  BY <1>1 DEF Now, Run, FirehoseInv, FirehoseTypes
<1>3. PICK r \in Answer :
        /\ usb' = Append(usb, r)
        /\ \/ flash' = [flash EXCEPT ![dev.part].pieces = @ \cup {Piece(dev.run)}]
           \/ flash' = flash /\ ~r.ack
  <2>1. /\ Response(TRUE, FALSE, 0) \in Answer /\ Response(FALSE, FALSE, 0) \in Answer
        /\ ~Response(FALSE, FALSE, 0).ack
    BY DEF Response, Answer
  <2>2. QED
    BY <2>1 DEF Store, Say
<1>4. /\ Contents'
      /\ r.ack => Piece(Run) \in flash'[Now.part].pieces
      /\ flash'[Now.part].old = flash[Now.part].old
  <2>1. CASE flash' = [flash EXCEPT ![dev.part].pieces = @ \cup {Piece(dev.run)}]
    BY <1>1, <2>1, Filled
  <2>2. CASE flash' = flash /\ ~r.ack
    <3>1. FlashTypes' /\ Unmixed' /\ Passed' /\ Underway'
      BY <1>1, <1>2, <2>2 DEF BothInv, FlashInvariant, FlashTypes, Unmixed, Passed, Underway
    <3>2. SblInvariant'
      BY <1>1, <2>2 DEF BothInv, SblInvariant, SblFirst, SblGone, SblOver, Early, ErasesSbl, Table
    <3>3. QED
      BY <2>2, <3>1, <3>2 DEF Contents
  <2>3. QED
    BY <1>3, <2>1, <2>2
<1>5. Busy'
  <2>1. dev'.mode = "idle"
    BY <1>1, <1>2 DEF Device
  <2>2. QED
    BY <2>1 DEF Busy
<1>6. AcksEarned'
  <2>1. Now.type = "program"
    BY <1>1 DEF BothInv, FlashInvariant, Busy
  <2>2. CASE pc # "written"
    BY <1>1, <1>2, <2>1, <2>2 DEF AcksEarned, Earned
  <2>3. CASE pc = "written"
    <3>1. Quiet
      BY <1>1, <2>3 DEF FirehoseInv, Turns
    <3>2. Arriving' \subseteq {r}
      <4>1. r \in Message
        BY <1>3, Messages
      <4>2. Responses(usb') \subseteq Responses(usb) \cup {Len(usb) + 1} /\ usb'[Len(usb) + 1] = r
        BY <1>2, <1>3, <4>1, Added, Zenon
      <4>3. QED
        BY <1>1, <3>1, <4>2 DEF Arriving, Quiet
    <3>3. Earned(r, pc, Now, Run, flash')
      BY <1>4, <2>1 DEF Earned
    <3>4. QED
      BY <1>1, <1>2, <3>2, <3>3 DEF AcksEarned
  <2>4. QED
    BY <2>2, <2>3
<1>7. Landed'
  BY <1>1, <1>2, <1>4 DEF BothInv, FlashInvariant, Landed
<1>8. QED
  BY <1>4, <1>5, <1>6, <1>7 DEF Contents, BothInv, FlashInvariant

\* The power goes.
LEMMA PowerCutOver ==
  ASSUME FirehoseInv, BothInv, Bound, PowerCut
  PROVE  BothInv'
<1>1. /\ pc' = "failed" /\ UNCHANGED <<job, plan, at, group>> /\ dev' = Idle(dev.limit)
      /\ \/ flash' = flash
         \/ dev.mode = "cmd" /\ dev.type = "erase" /\ flash' = WithoutErased
  BY DEF PowerCut
<1>2. Busy' /\ AcksEarned' /\ Landed'
  BY <1>1 DEF Busy, Idle, AcksEarned, Earned, Landed
<1>3. CASE flash' = flash
  BY <1>1, <1>2, <1>3, Steady
<1>4. CASE dev.mode = "cmd" /\ dev.type = "erase" /\ flash' = WithoutErased
  <2>1. Contents'
    BY <1>1, <1>4, Erased
  <2>2. QED
    BY <1>2, <2>1 DEF Contents, BothInv, FlashInvariant
<1>5. QED
  BY <1>1, <1>3, <1>4

\* Every step of the two threads and of the module.
LEMMA WorkOver ==
  ASSUME FirehoseInv, BothInv, Bound, Work
  PROVE  BothInv'
BY QuietSteps, SkipOver, ReceiveOver, SendImageOver, WrittenOver, ExecuteOver, StoreOver,
   PowerCutOver DEF Work

-----------------------------------------------------------------------------
(* The order of the plan. *)

\* A sequence of commands from D, each pair of them in the relation R; and what is in it.
Tidy(p, D, R) ==
  /\ p \in Seq(AnyCommand) /\ \A k \in 1 .. Len(p) : p[k] \in D
  /\ \A k, l \in 1 .. Len(p) : k < l => <<p[k], p[l]>> \in R
Before(D, C, R) == \A x \in D, y \in C : <<x, y>> \in R
Has(p, c) == \E k \in 1 .. Len(p) : p[k] = c
Second(p, c) == Len(p) > 1 /\ p[2] = c

\* One sequence after the other.
LEMMA Joined ==
  ASSUME NEW D, NEW C, NEW R, NEW p, NEW q, Tidy(p, D, R), Tidy(q, C, R),
         Before(D, C, R)
  PROVE  /\ Tidy(p \o q, D \cup C, R)
         /\ \A c : Has(p, c) \/ Has(q, c) => Has(p \o q, c)
         /\ \A c : Second(p, c) => Second(p \o q, c)
         /\ \A c : Len(p) = 1 /\ Len(q) > 0 /\ q[1] = c => Second(p \o q, c)
<1>1. /\ p \in Seq(AnyCommand) /\ q \in Seq(AnyCommand) /\ Len(p) \in Nat /\ Len(q) \in Nat
      /\ \A k \in 1 .. Len(p) : p[k] \in D
      /\ \A k \in 1 .. Len(q) : q[k] \in C
      /\ \A k, l \in 1 .. Len(p) : k < l => <<p[k], p[l]>> \in R
      /\ \A k, l \in 1 .. Len(q) : k < l => <<q[k], q[l]>> \in R
  BY DEF Tidy
<1> DEFINE z == p \o q
<1> HIDE DEF AnyCommand
<1>2. z \in Seq(AnyCommand) /\ Len(z) = Len(p) + Len(q)
  BY <1>1, ConcatProperties
<1>3. \A k \in 1 .. Len(p) : k \in 1 .. Len(z) /\ z[k] = p[k]
  BY <1>1, <1>2, ConcatProperties
<1>4. \A k \in 1 .. Len(q) : Len(p) + k \in 1 .. Len(z) /\ z[Len(p) + k] = q[k]
  <2>1. ASSUME NEW k \in 1 .. Len(q) PROVE Len(p) + k \in 1 .. Len(z) /\ z[Len(p) + k] = q[k]
    <3>1. /\ Len(p) + k \in 1 .. Len(p) + Len(q) /\ ~(Len(p) + k <= Len(p))
          /\ (Len(p) + k) - Len(p) = k
      BY <1>1
    <3>2. z[Len(p) + k] = q[(Len(p) + k) - Len(p)]
      BY <1>1, <3>1, ConcatProperties
    <3>3. QED
      BY <1>2, <3>1, <3>2
  <2>2. QED
    BY <2>1
<1>5. \A k \in 1 .. Len(z) :
        \/ k \in 1 .. Len(p)
        \/ k - Len(p) \in 1 .. Len(q) /\ k = Len(p) + (k - Len(p))
  BY <1>1, <1>2
<1> HIDE DEF z
<1>6. \A k \in 1 .. Len(z) : \/ k \in 1 .. Len(p) /\ z[k] = p[k]
                             \/ k - Len(p) \in 1 .. Len(q) /\ z[k] = q[k - Len(p)]
  BY <1>3, <1>4, <1>5, Zenon
<1>7. \A k \in 1 .. Len(z) : z[k] \in D \cup C
  BY <1>1, <1>6, Zenon
<1>8. ASSUME NEW k \in 1 .. Len(z), NEW l \in 1 .. Len(z), k < l
      PROVE  <<z[k], z[l]>> \in R
  <2>1. CASE k \in 1 .. Len(p) /\ z[k] = p[k] /\ l \in 1 .. Len(p) /\ z[l] = p[l]
    BY <1>1, <1>8, <2>1
  <2>2. CASE /\ k \in 1 .. Len(p) /\ z[k] = p[k]
             /\ l - Len(p) \in 1 .. Len(q) /\ z[l] = q[l - Len(p)]
    BY <1>1, <2>2 DEF Before
  <2>3. CASE /\ k - Len(p) \in 1 .. Len(q) /\ z[k] = q[k - Len(p)]
             /\ l - Len(p) \in 1 .. Len(q) /\ z[l] = q[l - Len(p)]
    <3>1. k - Len(p) < l - Len(p)
      BY <1>1, <1>2, <1>8
    <3>2. QED
      BY <1>1, <2>3, <3>1
  <2>4. CASE k - Len(p) \in 1 .. Len(q) /\ l \in 1 .. Len(p)
    BY <1>1, <1>2, <1>8, <2>4
  <2>5. QED
    BY <1>6, <2>1, <2>2, <2>3, <2>4
<1>9. Tidy(z, D \cup C, R)
  BY <1>2, <1>7, <1>8 DEF Tidy
<1>10. \A c : Has(p, c) \/ Has(q, c) => Has(z, c)
  BY <1>3, <1>4 DEF Has
<1>11. \A c : Second(p, c) => Second(z, c)
  <2>1. Len(p) > 1 => 2 \in 1 .. Len(p) /\ Len(z) > 1
    BY <1>1, <1>2
  <2>2. QED
    BY <1>3, <2>1 DEF Second
<1>12. \A c : Len(p) = 1 /\ Len(q) > 0 /\ q[1] = c => Second(z, c)
  <2>1. Len(p) = 1 /\ Len(q) > 0 => 1 \in 1 .. Len(q) /\ Len(z) > 1 /\ Len(p) + 1 = 2
    BY <1>1, <1>2
  <2>2. QED
    BY <1>4, <2>1 DEF Second
<1>13. QED
  BY <1>9, <1>10, <1>11, <1>12 DEF z

\* The commands by when they come: what erases, the programs without SBL's, that one
\* on NAND, and the rest.
BeforeAll == {c \in AnyCommand : c.type \in {"configure", "erase", "vendor"}}
NotSbl(j) == {c \in AnyCommand : c.type = "program" /\ ~(j.nand /\ c.part = 0)}
SblOnly(j) == {c \in AnyCommand : c.type = "program" /\ j.nand /\ c.part = 0}
AfterAll == {c \in AnyCommand : c.type \in {"patch", "setbootablestoragedrive", "reset"}}
Order(j) == {x \in AnyCommand \X AnyCommand : InTurn(j, x[1], x[2])}

\* Between classes, the order of the loops is the order that is wanted.
LEMMA Classes ==
  ASSUME NEW j
  PROVE  /\ \A c \in BeforeAll, d \in AnyCommand : <<c, d>> \in Order(j)
         /\ \A c \in NotSbl(j), d \in SblOnly(j) \cup AfterAll : <<c, d>> \in Order(j)
         /\ \A c \in SblOnly(j), d \in AfterAll : <<c, d>> \in Order(j)
         /\ \A c, d \in AfterAll : <<c, d>> \in Order(j)
<1> DEFINE A == AnyCommand
<1>1. \A c, d \in A : InTurn(j, c, d) => <<c, d>> \in Order(j)
  BY DEF Order
<1>2. /\ \A c \in BeforeAll : c \in A /\ c.type \in {"configure", "erase", "vendor"}
      /\ \A c \in NotSbl(j) : c \in A /\ c.type = "program" /\ ~(j.nand /\ c.part = 0)
      /\ \A c \in SblOnly(j) : c \in A /\ c.type = "program" /\ j.nand /\ c.part = 0
      /\ \A c \in AfterAll : c \in A /\ c.type \in {"patch", "setbootablestoragedrive", "reset"}
  BY DEF BeforeAll, NotSbl, SblOnly, AfterAll
<1> HIDE DEF A
<1>3. \A c \in BeforeAll, d \in AnyCommand : InTurn(j, c, d)
  BY <1>2 DEF InTurn
<1>4. \A c \in NotSbl(j), d \in SblOnly(j) \cup AfterAll : InTurn(j, c, d)
  BY <1>2 DEF InTurn
<1>5. \A c \in SblOnly(j), d \in AfterAll : InTurn(j, c, d)
  BY <1>2 DEF InTurn
<1>6. \A c, d \in AfterAll : InTurn(j, c, d)
  BY <1>2 DEF InTurn
<1>7. QED
  BY <1>1, <1>2, <1>3, <1>4, <1>5, <1>6 DEF A

\* A loop over the table for commands that may come in any order.
LEMMA LoopTidy ==
  ASSUME NEW j \in Jobs, NEW C, NEW D, \A c \in AnyCommand : c \in C => c \in D,
         \A c, d \in D : <<c, d>> \in Order(j)
  PROVE  Tidy(Only(j.table, C), D, Order(j))
<1> DEFINE s == Only(j.table, C)
<1>1. s \in Seq(AnyCommand) /\ \A k \in 1 .. Len(s) : s[k] \in C
  BY FromTable
<1> HIDE DEF s, AnyCommand
<1>2. \A k \in 1 .. Len(s) : s[k] \in AnyCommand
  BY <1>1
<1>3. \A k \in 1 .. Len(s) : s[k] \in D
  BY <1>1, <1>2, Zenon
<1>4. Tidy(s, D, Order(j))
  BY <1>1, <1>3, Zenon DEF Tidy
<1>5. QED
  BY <1>4 DEF s

\* A loop that programs, when no partition is programmed twice.
LEMMA ProgramsTidy ==
  ASSUME ProgrammedOnce, NEW j \in Jobs, NEW C, NEW D \in {NotSbl(j), SblOnly(j)},
         \A c \in AnyCommand : c \in C => c \in D
  PROVE  Tidy(Only(j.table, C), D, Order(j))
<1> DEFINE s == Only(j.table, C)
           t == j.table
<1>1. s \in Seq(AnyCommand) /\ \A k \in 1 .. Len(s) : s[k] \in C
  BY FromTable
<1>2. t \in Seq(Entry) /\ Len(t) \in Nat
  BY FromTable
<1>3. PICK h : Picks(h, s, t, Len(t), C)
  BY <1>2, OnlyPicks
<1>4. /\ h \in [1 .. Len(s) -> 1 .. Len(t)]
      /\ \A k \in 1 .. Len(s) : s[k] = t[h[k]]
      /\ \A k, l \in 1 .. Len(s) : k < l => h[k] < h[l]
  BY <1>3 DEF Picks
<1>5. \A a, b \in 1 .. Len(t) : /\ t[a].type = "program" /\ t[b].type = "program"
                                /\ t[a].part = t[b].part
                                => a = b
  BY DEF ProgrammedOnce
<1> HIDE DEF s, t
<1>6. \A k \in 1 .. Len(s) : s[k] \in AnyCommand
  <2> HIDE DEF AnyCommand
  <2>1. QED
    BY <1>1
<1>7. \A k \in 1 .. Len(s) : s[k] \in D
  BY <1>1, <1>6, Zenon
<1>8. \A k \in 1 .. Len(s) : /\ s[k].type = "program"
                             /\ \/ ~(j.nand /\ s[k].part = 0)
                                \/ D = SblOnly(j) /\ s[k].part = 0
  <2> HIDE DEF AnyCommand
  <2>1. CASE D = NotSbl(j)
    BY <1>7, <2>1 DEF NotSbl
  <2>2. CASE D = SblOnly(j)
    BY <1>7, <2>2 DEF SblOnly
  <2>3. QED
    BY <2>1, <2>2
<1>9. ASSUME NEW k \in 1 .. Len(s), NEW l \in 1 .. Len(s), k < l
      PROVE  <<s[k], s[l]>> \in Order(j)
  <2>1. h[k] \in 1 .. Len(t) /\ h[l] \in 1 .. Len(t) /\ h[k] # h[l]
    <3>1. h[k] \in 1 .. Len(t) /\ h[l] \in 1 .. Len(t) /\ h[k] < h[l]
      BY <1>4, <1>9
    <3>2. QED
      BY <1>2, <3>1
  <2>2. s[k].part # s[l].part
    BY <1>4, <1>5, <1>8, <2>1
  <2>3. InTurn(j, s[k], s[l])
    <3>1. ~(j.nand /\ s[k].part = 0)
      <4>1. SUFFICES ASSUME s[k].part = 0, j.nand PROVE FALSE
        OBVIOUS
      <4>2. D = SblOnly(j)
        BY <1>8, <4>1
      <4>3. s[l] \in SblOnly(j)
        BY <1>7, <4>2
      <4>4. s[l].part = 0
        BY <4>3 DEF SblOnly
      <4>5. QED
        BY <2>2, <4>1, <4>4
    <3>2. QED
      BY <1>8, <2>2, <3>1 DEF InTurn
  <2>4. QED
    <3> DEFINE A == AnyCommand
    <3>1. s[k] \in A /\ s[l] \in A /\ \A c, d \in A : InTurn(j, c, d) => <<c, d>> \in Order(j)
      BY <1>6 DEF Order
    <3> HIDE DEF A
    <3>2. QED
      BY <2>3, <3>1
<1>10. Tidy(s, D, Order(j))
  <2> HIDE DEF AnyCommand
  <2>1. QED
    BY <1>1, <1>7, <1>9 DEF Tidy
<1>11. QED
  BY <1>10 DEF s

\* A loop misses no command.
LEMMA Taken ==
  ASSUME NEW j \in Jobs, NEW C, NEW i \in 1 .. Len(j.table), j.table[i] \in C
  PROVE  /\ Has(Only(j.table, C), j.table[i])
         /\ Len(Only(j.table, C)) > 0 /\ Only(j.table, C)[1] \in C
<1> DEFINE s == Only(j.table, C)
           t == j.table
<1>1. t \in Seq(Entry) /\ s \in Seq(AnyCommand) /\ Len(s) \in Nat
  <2>1. t \in Seq(Entry) /\ s \in Seq(AnyCommand)
    BY FromTable
  <2> HIDE DEF s, AnyCommand
  <2>2. QED
    BY <2>1
<1>2. PICK h : Picks(h, s, t, Len(t), C)
  BY <1>1, OnlyPicks
<1>3. PICK k \in 1 .. Len(s) : h[k] = i
  BY <1>2 DEF Picks
<1>4. s[k] = t[i] /\ \A l \in 1 .. Len(s) : s[l] \in C
  BY <1>2, <1>3 DEF Picks
<1> HIDE DEF s
<1>5. Len(s) > 0 /\ 1 \in 1 .. Len(s)
  BY <1>1
<1>6. QED
  BY <1>3, <1>4, <1>5 DEF Has, s

\* The commands firehose_main adds, alone or not at all.
LEMMA OneTidy ==
  ASSUME NEW c \in AnyCommand, NEW D, c \in D, NEW R
  PROVE  Tidy(<<c>>, D, R) /\ Tidy(<<>>, D, R) /\ Len(<<c>>) = 1
<1> HIDE DEF AnyCommand
<1>1. <<c>> \in Seq(AnyCommand) /\ <<>> \in Seq(AnyCommand)
  OBVIOUS
<1>2. \A k \in 1 .. Len(<<c>>) : <<c>>[k] = c /\ k = 1
  OBVIOUS
<1>3. QED
  BY <1>1, <1>2 DEF Tidy

\* The loops of firehose_main one after the other.
LEMMA PlanTidy ==
  ASSUME ProgrammedOnce, NEW j \in Jobs
  PROVE  /\ \A k, l \in 1 .. Len(Plan(j)) : k < l => <<Plan(j)[k], Plan(j)[l]>> \in Order(j)
         /\ j.nand /\ (\E i \in 1 .. Len(j.table) : FirstErase(j.table[i])) =>
              Len(Plan(j)) > 1 /\ FirstErase(Plan(j)[2])
         /\ \A i \in 1 .. Len(j.table) : Program(j.table[i]) => Has(Plan(j), j.table[i])
<1> DEFINE
     E == {c \in Entry : FirstErase(c)}
     F == {c \in Entry : Program(c) /\ ~(j.nand /\ c.part = 0)}
     L == {c \in Entry : Program(c) /\ j.nand /\ c.part = 0}
     p1 == <<Command("configure")>>
     a2 == IF j.nand \/ j.eraseall THEN Only(j.table, E) ELSE <<>>
     a3 == Only(j.table, {c \in Entry : Vendor(c)})
     a4 == IF j.eraseall THEN <<>> ELSE OtherErase(j)
     a5 == FirstProgram(j)
     a6 == LastProgram(j)
     a7 == Only(j.table, {c \in Entry : Patch(c)})
     a8 == IF j.nand THEN <<>> ELSE <<Command("setbootablestoragedrive")>>
     a9 == <<Command("reset")>>
     R == Order(j)
     B == BeforeAll
     G == NotSbl(j)
     H == SblOnly(j)
     Z == AfterAll
<1>1. /\ Command("configure") \in B /\ Command("setbootablestoragedrive") \in Z
      /\ Command("reset") \in Z
  <2> DEFINE A == AnyCommand
  <2>1. /\ \A c \in A : c.type = "configure" => c \in B
        /\ \A c \in A : c.type \in {"setbootablestoragedrive", "reset"} => c \in Z
    BY DEF BeforeAll, AfterAll
  <2>2. \A t \in {"configure", "setbootablestoragedrive", "reset"} :
          Command(t) \in A /\ Command(t).type = t
    BY Commands
  <2> HIDE DEF A, B, Z
  <2>3. QED
    BY <2>1, <2>2
<1>2. /\ \A c, d \in B : <<c, d>> \in R
      /\ \A c, d \in Z : <<c, d>> \in R
      /\ \A c \in B, d \in G : <<c, d>> \in R
      /\ \A c \in B, d \in H : <<c, d>> \in R
      /\ \A c \in B, d \in Z : <<c, d>> \in R
      /\ \A c \in G, d \in H \cup Z : <<c, d>> \in R
      /\ \A c \in H, d \in Z : <<c, d>> \in R
  <2>1. B \subseteq AnyCommand /\ G \subseteq AnyCommand /\ H \subseteq AnyCommand /\ Z \subseteq AnyCommand
    BY DEF BeforeAll, NotSbl, SblOnly, AfterAll
  <2> HIDE DEF AnyCommand, B, G, H, Z
  <2>2. QED
    BY <2>1, Classes, Zenon DEF B, G, H, Z
<1>before. /\ Before(B, B, R) /\ Before(B, G, R) /\ Before(B \cup G, H, R)
      /\ Before((B \cup G) \cup H, Z, R) /\ Before(((B \cup G) \cup H) \cup Z, Z, R)
  <2> HIDE DEF B, G, H, Z, R
  <2>1. QED
    BY <1>2, Zenon DEF Before
<1>3. /\ \A c \in AnyCommand : c \in E => c \in B
      /\ \A c \in AnyCommand : c \in {x \in Entry : Vendor(x)} => c \in B
      /\ \A c \in AnyCommand : c \in {x \in Entry : /\ x.type = "erase" /\ ~x.empty
                                                    /\ ~(j.nand /\ x.part = 0)} => c \in B
  BY DEF BeforeAll, FirstErase, Vendor
<1>4. /\ \A c \in AnyCommand : c \in F => c \in G
      /\ \A c \in AnyCommand : c \in L => c \in H
      /\ \A c \in AnyCommand : c \in {x \in Entry : Patch(x)} => c \in Z
  BY DEF NotSbl, SblOnly, AfterAll, Program, Patch
<1>5. Tidy(p1, B, R) /\ Tidy(<<>>, B, R) /\ Len(p1) = 1
  BY <1>1, Commands, OneTidy
<1>6. Tidy(<<Command("setbootablestoragedrive")>>, Z, R) /\ Tidy(<<>>, Z, R) /\ Tidy(a9, Z, R)
  BY <1>1, Commands, OneTidy
<1> HIDE DEF p1, a9, R, B, G, H, Z
<1>7. Tidy(a2, B, R)
  <2>1. Tidy(Only(j.table, E), B, R)
    BY <1>2, <1>3, LoopTidy DEF R
  <2>2. QED
    BY <1>5, <2>1
<1>8. Tidy(a3, B, R)
  BY <1>2, <1>3, LoopTidy DEF R
<1>9. Tidy(a4, B, R)
  <2>1. Tidy(OtherErase(j), B, R)
    BY <1>2, <1>3, LoopTidy DEF R, OtherErase
  <2>2. QED
    BY <1>5, <2>1
<1>10. Tidy(a5, G, R)
  BY <1>4, ProgramsTidy DEF R, G, FirstProgram
<1>11. Tidy(a6, H, R)
  BY <1>4, ProgramsTidy DEF R, H, LastProgram
<1>12. Tidy(a7, Z, R)
  BY <1>2, <1>4, LoopTidy DEF R
<1>13. Tidy(a8, Z, R)
  BY <1>6
<1>14. Plan(j) = p1 \o a2 \o a3 \o a4 \o a5 \o a6 \o a7 \o a8 \o a9
  BY DEF Plan, p1, a9
<1> DEFINE first(c) == j.nand /\ (\E i \in 1 .. Len(j.table) : FirstErase(j.table[i]))
                         => FirstErase(c)
<1>15. ASSUME NEW i \in 1 .. Len(j.table), Program(j.table[i])
       PROVE  Has(a5, j.table[i]) \/ Has(a6, j.table[i])
  <2>1. j.table[i] \in Entry
    <3> HIDE DEF Entry
    <3>1. j.table \in Seq(Entry)
      BY FromTable
    <3>2. QED
      BY <3>1
  <2>2. j.table[i] \in F \/ j.table[i] \in L
    BY <1>15, <2>1
  <2>3. Only(j.table, F) = a5 /\ Only(j.table, L) = a6
    BY DEF FirstProgram, LastProgram
  <2> HIDE DEF F, L, a5, a6
  <2>4. QED
    BY <2>2, <2>3, Taken
<1>16. ASSUME j.nand, NEW i \in 1 .. Len(j.table), FirstErase(j.table[i])
       PROVE  Len(a2) > 0 /\ FirstErase(a2[1])
  <2>1. j.table[i] \in Entry
    <3> HIDE DEF Entry
    <3>1. j.table \in Seq(Entry)
      BY FromTable
    <3>2. QED
      BY <3>1
  <2>2. j.table[i] \in E
    BY <1>16, <2>1
  <2>3. Len(Only(j.table, E)) > 0 /\ Only(j.table, E)[1] \in E
    <3> HIDE DEF E
    <3>1. QED
      BY <2>2, Taken
  <2>4. QED
    BY <1>16, <2>3
<1> HIDE DEF a2, a3, a4, a5, a6, a7, a8
<1> DEFINE q2 == p1 \o a2
           q3 == q2 \o a3
           q4 == q3 \o a4
           q5 == q4 \o a5
           q6 == q5 \o a6
           q7 == q6 \o a7
           q8 == q7 \o a8
           q9 == q8 \o a9
<1>17. Plan(j) = q9
  BY <1>14
<1>same. B \cup B = B
  OBVIOUS
<1>18. /\ Tidy(q2, B \cup B, R)
       /\ \A c : Len(p1) = 1 /\ Len(a2) > 0 /\ a2[1] = c => Second(q2, c)
  BY <1>before, <1>5, <1>7, Joined
<1> HIDE DEF q2
<1>19. Tidy(q2, B, R)
  BY <1>18, <1>same
<1>20. Tidy(q3, B \cup B, R) /\ \A c : Second(q2, c) => Second(q3, c)
  BY <1>before, <1>8, <1>19, Joined
<1> HIDE DEF q3
<1>21. Tidy(q4, B \cup B, R) /\ \A c : Second(q3, c) => Second(q4, c)
  <2>1. Tidy(q3, B, R)
    BY <1>20, <1>same
  <2>2. QED
    BY <1>before, <1>9, <2>1, Joined
<1>22. Tidy(q4, B, R)
  BY <1>21, <1>same
<1> HIDE DEF q4
<1>23. /\ Tidy(q5, B \cup G, R) /\ \A c : Second(q4, c) => Second(q5, c)
       /\ \A c : Has(a5, c) => Has(q5, c)
  BY <1>before, <1>10, <1>22, Joined
<1> HIDE DEF q5
<1>24. /\ Tidy(q6, (B \cup G) \cup H, R) /\ \A c : Second(q5, c) => Second(q6, c)
       /\ \A c : Has(q5, c) \/ Has(a6, c) => Has(q6, c)
  BY <1>before, <1>11, <1>23, Joined
<1> HIDE DEF q6
<1>25. /\ Tidy(q7, ((B \cup G) \cup H) \cup Z, R) /\ \A c : Second(q6, c) => Second(q7, c)
       /\ \A c : Has(q6, c) => Has(q7, c)
  BY <1>before, <1>12, <1>24, Joined
<1> HIDE DEF q7
<1> DEFINE U == ((B \cup G) \cup H) \cup Z
<1>26. Before(U, Z, R)
  BY <1>before
<1>27. U \cup Z = U
  OBVIOUS
<1> HIDE DEF U
<1>28. /\ Tidy(q8, U \cup Z, R) /\ \A c : Second(q7, c) => Second(q8, c)
       /\ \A c : Has(q7, c) => Has(q8, c)
  BY <1>13, <1>25, <1>26, Joined DEF U
<1> HIDE DEF q8
<1>29. /\ Tidy(q9, U \cup Z, R) /\ \A c : Second(q8, c) => Second(q9, c)
       /\ \A c : Has(q8, c) => Has(q9, c)
  <2>1. Tidy(q8, U, R)
    BY <1>27, <1>28
  <2>2. QED
    BY <1>6, <1>26, <2>1, Joined
<1> HIDE DEF q9
<1>30. \A k, l \in 1 .. Len(q9) : k < l => <<q9[k], q9[l]>> \in R
  BY <1>29 DEF Tidy
<1>31. ASSUME j.nand, NEW i \in 1 .. Len(j.table), FirstErase(j.table[i])
       PROVE  Len(q9) > 1 /\ FirstErase(q9[2])
  <2>1. Len(a2) > 0 /\ FirstErase(a2[1])
    BY <1>16, <1>31
  <2>2. Second(q2, a2[1])
    BY <1>5, <1>18, <2>1
  <2>3. Second(q9, a2[1])
    BY <1>20, <1>21, <1>23, <1>24, <1>25, <1>28, <1>29, <2>2
  <2>4. QED
    BY <2>1, <2>3 DEF Second
<1>32. ASSUME NEW i \in 1 .. Len(j.table), Program(j.table[i]) PROVE Has(q9, j.table[i])
  BY <1>15, <1>23, <1>24, <1>25, <1>28, <1>29, <1>32
<1>33. QED
  BY <1>17, <1>30, <1>31, <1>32 DEF R

\* What firehose_main will send is in order and misses no image.
LEMMA PlanOrdered ==
  ASSUME ProgrammedOnce, NEW j \in Jobs
  PROVE  /\ Ordered(j, Schedule(j))
         /\ \A i \in 1 .. Len(j.table) : Program(j.table[i]) =>
              \E k \in 1 .. Len(Schedule(j)) :
                /\ Schedule(j)[k].type = "program" /\ Schedule(j)[k].part = j.table[i].part
                /\ Schedule(j)[k].runs = RunsOf(j, j.table[i])
<1> DEFINE p == Plan(j)
           z == Schedule(j)
<1>1. p \in Seq(AnyCommand) /\ Len(p) \in Nat
  BY PlanBegun DEF Begun
<1>2. z = [k \in 1 .. Len(p) |->
             [type |-> p[k].type, part |-> p[k].part, runs |-> RunsOf(j, p[k])]]
  BY DEF Schedule
<1>3. /\ \A k, l \in 1 .. Len(p) : k < l => <<p[k], p[l]>> \in Order(j)
      /\ j.nand /\ (\E i \in 1 .. Len(j.table) : FirstErase(j.table[i])) =>
           Len(p) > 1 /\ FirstErase(p[2])
      /\ \A i \in 1 .. Len(j.table) : Program(j.table[i]) => Has(p, j.table[i])
  BY PlanTidy
<1> HIDE DEF p, z
<1>4. Len(z) = Len(p)
  <2>1. Sensible(Schedule(j))
    BY PlanSensible
  <2>2. Len(z) \in Nat /\ DOMAIN z = 1 .. Len(z)
    <3> HIDE DEF Planned
    <3>1. z \in Seq(Planned)
      BY <2>1 DEF Sensible, z
    <3>2. QED
      BY <3>1
  <2>3. DOMAIN z = 1 .. Len(p)
    BY <1>2
  <2>4. QED
    BY <1>1, <2>2, <2>3
<1>5. \A k \in 1 .. Len(p) : z[k].type = p[k].type /\ z[k].part = p[k].part
                             /\ z[k].runs = RunsOf(j, p[k])
  BY <1>2
<1>6. \A k, l \in 1 .. Len(p) : k < l => InTurn(j, p[k], p[l])
  <2> DEFINE A == AnyCommand
  <2>1. \A c, d : <<c, d>> \in Order(j) => InTurn(j, c, d)
    BY DEF Order
  <2>2. QED
    BY <1>3, <2>1, Zenon
<1>7. \A k, l \in 1 .. Len(z) : k < l => InTurn(j, z[k], z[l])
  BY <1>4, <1>5, <1>6 DEF InTurn
<1>8. j.nand /\ (\E i \in 1 .. Len(j.table) : FirstErase(j.table[i])) =>
        Len(z) > 1 /\ z[2].type = "erase" /\ z[2].part = 0
  <2>1. Len(p) > 1 => 2 \in 1 .. Len(p)
    BY <1>1
  <2>2. QED
    BY <1>3, <1>4, <1>5, <2>1 DEF FirstErase
<1>9. ASSUME NEW i \in 1 .. Len(j.table), Program(j.table[i])
      PROVE  \E k \in 1 .. Len(z) :
                /\ z[k].type = "program" /\ z[k].part = j.table[i].part
                /\ z[k].runs = RunsOf(j, j.table[i])
  <2>1. PICK k \in 1 .. Len(p) : p[k] = j.table[i]
    BY <1>3, <1>9 DEF Has
  <2>2. QED
    BY <1>4, <1>5, <1>9, <2>1 DEF Program
<1>10. QED
  BY <1>7, <1>8, <1>9 DEF Ordered, z

-----------------------------------------------------------------------------
(* The two properties. *)

\* What an image consists of: Image without the state.
Meant(c) == IF c.image = <<>> THEN {Piece(Whole(0))} ELSE Pieces(c.image)

\* The data sent for an image is what the image consists of.
LEMMA SentIsMeant ==
  ASSUME BlockSectors = 8, NEW j \in Jobs, NEW c \in Entry, Right(j, c)
  PROVE  /\ Len(RunsOf(j, c)) > 0
         /\ {Piece(RunsOf(j, c)[g]) : g \in 1 .. Len(RunsOf(j, c))} = Meant(c)
         /\ Meant(c) # {}
<1>1. c.image \in Seq(SparseChunk)
  BY DEF Entry
<1>2. CASE c.image = <<>>
  <2> DEFINE r == <<Whole(c.size)>>
  <2>1. RunsOf(j, c) = r /\ Meant(c) = {Piece(Whole(0))}
    BY <1>2 DEF RunsOf, Meant
  <2>2. Len(r) = 1 /\ r[1] = Whole(c.size) /\ \A g : g \in 1 .. 1 <=> g = 1
    OBVIOUS
  <2>3. Piece(Whole(c.size)) = Piece(Whole(0))
    BY DEF Piece, Whole
  <2> HIDE DEF r
  <2>4. {Piece(r[g]) : g \in 1 .. Len(r)} = {Piece(Whole(0))}
    BY <2>2, <2>3
  <2>5. QED
    BY <2>1, <2>2, <2>4
<1>3. CASE c.image # <<>>
  <2>1. Plain(c.image) /\ ~j.zip
    BY <1>1, <1>3 DEF Right, Plain
  <2>2. RunsOf(j, c) = Runs(c.image) /\ Meant(c) = Pieces(c.image)
    BY <1>3, <2>1 DEF RunsOf, Meant
  <2> DEFINE r == Runs(c.image)
  <2>3. Len(r) \in Nat /\ Len(r) > 0 /\ {Piece(r[g]) : g \in 1 .. Len(r)} = Pieces(c.image)
    BY <2>1, RunsArePieces
  <2> HIDE DEF r
  <2>4. 1 \in 1 .. Len(r)
    BY <2>3
  <2>5. Piece(r[1]) \in Pieces(c.image)
    BY <2>3, <2>4
  <2>6. QED
    BY <2>2, <2>3, <2>5 DEF r
<1>4. QED
  BY <1>2, <1>3

\* A partition whose program command has done its work holds the image, and nothing else.
LEMMA CompleteIsNew ==
  ASSUME BlockSectors = 8, FirehoseInv, Bound, BothInv, NEW i \in ToProgram, Right(job, Table[i]),
         NEW k \in 1 .. Len(plan), plan[k].type = "program", plan[k].part = Table[i].part,
         plan[k].runs = RunsOf(job, Table[i]), Complete(plan[k], flash)
  PROVE  Image(i) = "new"
<1> DEFINE c == Table[i]
           p == c.part
<1>1. job \in Jobs /\ job.table \in Seq(Entry) /\ i \in 1 .. Len(job.table)
  BY FromTable DEF Bound, ToProgram, Table
<1>2. c \in Entry
  <2> HIDE DEF Entry
  <2>1. QED
    BY <1>1 DEF Table
<1>3. p \in Partition
  BY <1>2 DEF Entry
<1>4. /\ Len(plan[k].runs) > 0 /\ PiecesOf(plan[k]) = Meant(c)
  BY <1>1, <1>2, SentIsMeant DEF PiecesOf
<1> HIDE DEF c
<1>5. ~flash[p].old /\ Meant(c) \subseteq flash[p].pieces
  BY <1>4 DEF Complete, c
<1>6. flash[p].pieces \subseteq Meant(c)
  <2>1. ASSUME NEW x \in flash[p].pieces PROVE x \in Meant(c)
    <3>1. PICK l \in 1 .. Len(plan) : /\ plan[l].type = "program" /\ plan[l].part = p
                                      /\ x \in PiecesOf(plan[l])
      BY <1>3, <2>1 DEF BothInv, FlashInvariant, Unmixed
    <3>2. ~(k < l) /\ ~(l < k)
      BY <3>1 DEF Bound, Ordered, InTurn, c
    <3>3. k = l
      <4>1. k \in Int /\ l \in Int
        OBVIOUS
      <4>2. QED
        BY <3>2, <4>1
    <3>4. QED
      BY <1>4, <3>1, <3>3
  <2>2. QED
    BY <2>1
<1>7. flash[p].pieces = Meant(c)
  BY <1>5, <1>6
<1>8. QED
  BY <1>5, <1>7 DEF Image, Meant, c

\* The state of the flash, in every call of the tool, when no partition is programmed
\* twice: what is behind is done, nothing is in flash that was not sent for it, and on
\* NAND, SBL is gone before the rest is touched and comes back after it.
THEOREM FlashKept ==
  ASSUME ProgrammedOnce
  PROVE  QSpec => [](Bound /\ BothInv)
<1>1. QInit => Bound /\ BothInv
  <2> SUFFICES ASSUME QInit PROVE Bound /\ BothInv
    OBVIOUS
  <2>1. /\ job \in Jobs /\ plan = Schedule(job) /\ pc = "idle" /\ at = 1 /\ group = 0
        /\ dev = Idle(MaxPayload)
        /\ flash = [p \in Partition |-> [old |-> TRUE, pieces |-> {}]]
    BY DEF QInit, Init
  <2>2. Bound
    BY <2>1, PlanOrdered DEF Bound
  <2>3. FlashTypes
    BY <2>1 DEF FlashTypes
  <2>4. Busy /\ Passed /\ Underway
    BY <2>1 DEF Busy, Passed, Underway, Idle
  <2>5. Unmixed
    BY <2>1 DEF Unmixed
  <2>6. AcksEarned /\ Landed
    BY <2>1 DEF AcksEarned, Earned, Landed
  <2>7. SblInvariant
    <3>1. 0 \in Partition
      BY Sizes
    <3>2. (\A p \in Partition : flash[p].old) /\ flash[0].pieces = {} /\ ~(at > 2)
      BY <2>1, <3>1
    <3>3. QED
      BY <3>2 DEF SblInvariant, SblFirst, SblGone, SblOver
  <2>8. QED
    BY <2>2, <2>3, <2>4, <2>5, <2>6, <2>7 DEF BothInv, FlashInvariant
<1>2. FirehoseInv /\ Bound /\ BothInv /\ [QNext]_allvars => Bound' /\ BothInv'
  <2> SUFFICES ASSUME FirehoseInv, Bound, BothInv, [QNext]_allvars PROVE Bound' /\ BothInv'
    OBVIOUS
  <2>1. ASSUME UNCHANGED <<job, plan>> PROVE Bound'
    BY <2>1 DEF Bound
  <2>2. ASSUME UNCHANGED vars PROVE Bound' /\ BothInv'
    <3>1. UNCHANGED <<job, plan, flash, at, group, pc, dev, sk, usb>>
      BY <2>2 DEF vars
    <3>2. Busy' /\ Arriving' = Arriving
      BY <3>1 DEF Busy, Now, Run, Arriving, BothInv, FlashInvariant
    <3>3. QED
      BY <2>1, <3>1, <3>2, Steady
  <2>3. CASE UNCHANGED allvars
    BY <2>2, <2>3 DEF allvars
  <2>4. CASE LoadProgrammer
    BY <2>2, <2>4 DEF LoadProgrammer
  <2>5. CASE BeginFirehose
    <3>1. /\ UNCHANGED <<job, plan, flash>> /\ at' = 1 /\ group' = 0 /\ pc' = "drain"
          /\ \E l \in Limits : dev' = Idle(l)
      BY <2>5 DEF BeginFirehose, Start
    <3>2. QED
      BY <2>1, <3>1, BeginAgain
  <2>6. CASE Work
    <3>1. UNCHANGED <<job, plan>>
      BY <2>6 DEF Work, Drain, Skip, Send, Receive, SendImage, Written, TimedOut, Execute,
                  Store, Chatter, SecondAnswer, PowerCut, ReadUsb, host
    <3>2. QED
      BY <2>1, <2>6, <3>1, WorkOver
  <2>7. CASE CallAgain
    <3>1. /\ UNCHANGED <<job, plan, flash>> /\ at' = 1 /\ group' = 0 /\ pc' = "idle"
          /\ dev' = Idle(MaxPayload)
      BY <2>7 DEF CallAgain
    <3>2. QED
      BY <2>1, <3>1, BeginAgain
  <2>8. QED
    BY <2>3, <2>4, <2>5, <2>6, <2>7 DEF QNext
<1>3. QED
  BY <1>1, <1>2, FirehoseInvariant, PTL DEF QSpec

\* The command of the plan that programs an image of the table.
LEMMA InPlan ==
  ASSUME ProgrammedOnce, Bound, NEW i \in ToProgram
  PROVE  \E k \in 1 .. Len(plan) : /\ plan[k].type = "program" /\ plan[k].part = Table[i].part
                                   /\ plan[k].runs = RunsOf(job, Table[i])
BY PlanOrdered DEF Bound, ToProgram, Table, Program

\* When firehose_main returns 0, every partition that is programmed holds its image,
\* each run of data at its place: if no partition is programmed twice, for the images
\* that are handled, and with the eight sectors to a block that the code counts holes by.
THEOREM SuccessMeansComplete ==
  ASSUME ProgrammedOnce, BlockSectors = 8
  PROVE  QSpec => []SuccessIsComplete
<1>1. FirehoseInv /\ Bound /\ BothInv => SuccessIsComplete
  <2> SUFFICES ASSUME FirehoseInv, Bound, BothInv, pc = "done", NEW i \in ToProgram,
                      Handled(Table[i])
               PROVE  Image(i) = "new"
    BY DEF SuccessIsComplete
  <2>1. Right(job, Table[i])
    BY DEF Handled
  <2>2. PICK k \in 1 .. Len(plan) : /\ plan[k].type = "program" /\ plan[k].part = Table[i].part
                                    /\ plan[k].runs = RunsOf(job, Table[i])
    BY InPlan
  <2>3. at \in 1 .. Len(plan) /\ plan[at].type = "reset"
    <3>1. Now.type = "reset" /\ at \in 1 .. Len(plan)
      BY AtWork DEF BothInv, FlashInvariant, Landed
    <3>2. QED
      BY <3>1 DEF Now
  <2>4. ~(at < k) /\ k # at
    BY <2>2, <2>3 DEF Bound, Ordered, InTurn
  <2>5. k \in 1 .. at - 1
    <3>1. k \in Int /\ at \in Int /\ 1 <= k
      BY <2>3
    <3>2. QED
      BY <2>4, <3>1
  <2>6. Complete(plan[k], flash)
    BY <2>2, <2>5 DEF BothInv, FlashInvariant, Passed, Over
  <2>7. QED
    BY <2>1, <2>2, <2>6, CompleteIsNew
<1>2. QED
  BY <1>1, FirehoseInvariant, FlashKept, PTL

\* On NAND, whenever the power goes, in any call of the tool: a module that can boot
\* boots from a whole image, all old or all new.
THEOREM SblNeverOverHalf ==
  ASSUME ProgrammedOnce, BlockSectors = 8, NandHandled
  PROVE  QSpec => []SblOverWholeImage
<1>1. FirehoseInv /\ Bound /\ BothInv => SblOverWholeImage
  <2> SUFFICES ASSUME FirehoseInv, Bound, BothInv, job.nand, ErasesSbl,
                      NEW s \in ToProgram, NEW i \in ToProgram, Table[s].part = 0,
                      Image(s) # "broken"
               PROVE  Image(i) = Image(s)
    BY DEF SblOverWholeImage
  <2>1. SblFirst /\ SblOver
    BY DEF BothInv, SblInvariant
  <2>2. /\ job \in Jobs /\ Table \in Seq(Entry)
        /\ s \in 1 .. Len(Table) /\ i \in 1 .. Len(Table)
        /\ Table[s].type = "program" /\ Table[i].type = "program"
    BY FromTable DEF Bound, ToProgram, Table
  <2>3. Table[s] \in Entry /\ Table[i] \in Entry
    <3> HIDE DEF Entry
    <3>1. QED
      BY <2>2
  <2>4. Table[i].part \in Partition
    BY <2>3 DEF Entry
  <2>5. Right(job, Table[s]) /\ Right(job, Table[i])
    BY <2>2 DEF NandHandled, Program, Table
  <2>6. CASE flash[0].old
    <3>1. flash[Table[i].part].old
      BY <2>1, <2>4, <2>6 DEF SblFirst
    <3>2. QED
      BY <2>6, <3>1 DEF Image
  <2>7. CASE ~flash[0].old
    <3>1. Image(s) = "new" /\ flash[0].pieces = Meant(Table[s])
      BY <2>7 DEF Image, Meant
    <3>2. flash[0].pieces # {}
      BY <2>2, <2>3, <2>5, <3>1, SentIsMeant
    <3>3. CASE Table[i].part = 0
      <4>1. i = s
        BY <2>2, <3>3 DEF ProgrammedOnce, Table
      <4>2. QED
        BY <4>1
    <3>4. CASE Table[i].part # 0
      <4>1. PICK k \in 1 .. Len(plan) : /\ plan[k].type = "program"
                                        /\ plan[k].part = Table[i].part
                                        /\ plan[k].runs = RunsOf(job, Table[i])
        BY InPlan
      <4>2. Complete(plan[k], flash)
        BY <2>1, <3>2, <3>4, <4>1 DEF SblOver
      <4>3. Image(i) = "new"
        BY <2>5, <4>1, <4>2, CompleteIsNew
      <4>4. QED
        BY <3>1, <4>3
    <3>5. QED
      BY <3>3, <3>4
  <2>8. QED
    BY <2>6, <2>7
<1>2. QED
  BY <1>1, FirehoseInvariant, FlashKept, PTL
=============================================================================
