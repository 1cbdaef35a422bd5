--------------------------- MODULE QuarantineProofs ---------------------------
(***************************************************************************)
(* The reschedule unknown lists keep a host that the job was taken from    *)
(* away from the job, as Quarantine says: for any number of hosts, runs,   *)
(* messages and faults, with late and partial reports, refused orders,     *)
(* crashes and lost connections.                                           *)
(***************************************************************************)
EXTENDS JobProtocolProofs

\* A list that lets two reports pass, and one that Purge() does not empty.
Fresh(list) == \E k \in DOMAIN list : list[k] = SKIP_JR
Lasts(list) == \E k \in DOMAIN list : list[k] # SKIP_JR_REMOVE

LEMMA WaitsOf ==
  ASSUME NEW list
  PROVE  /\ Waits(list) \in 0 .. 2
         /\ Waits(list) = 0 <=> list = <<>>
         /\ list # <<>> => (Waits(list) = 2 <=> Fresh(list))
BY DEF Waits, Fresh

LEMMA FreshIsNotEmpty ==
  ASSUME NEW list, Fresh(list)
  PROVE  list # <<>> /\ Waits(list) = 2 /\ Lasts(list)
BY DEF Fresh, Waits, Lasts, SKIP_JR, SKIP_JR_REMOVE

LEMMA LastsIsNotEmpty ==
  ASSUME NEW list, Lasts(list)
  PROVE  list # <<>>
BY DEF Lasts

\* A list that loses its first entry has no more reports to wait for.
LEMMA TailWaits ==
  ASSUME NEW list \in RuList, list # <<>>
  PROVE  Waits(Tail(list)) <= Waits(list)
<1>1. list \in Seq(RuState)
  BY DEF RuList
<1>2. /\ Tail(list) \in Seq(RuState) /\ DOMAIN Tail(list) = 1 .. Len(Tail(list))
      /\ Len(Tail(list)) = Len(list) - 1 /\ Len(list) \in Nat /\ DOMAIN list = 1 .. Len(list)
      /\ \A i \in 1 .. Len(Tail(list)) : Tail(list)[i] = list[i + 1]
  BY <1>1, HeadTailProperties, LenProperties
<1>3. Fresh(Tail(list)) => Fresh(list)
  BY <1>2 DEF Fresh
<1>4. /\ Waits(list) \in {1, 2} /\ (Fresh(list) => Waits(list) = 2)
      /\ Waits(Tail(list)) \in {0, 1, 2} /\ (Waits(Tail(list)) = 2 => Fresh(Tail(list)))
  BY DEF Waits, Fresh
<1> QED BY <1>3, <1>4

-----------------------------------------------------------------------------
(* The commits and the lists                                                 *)

LEMMA ListEffect ==
  ASSUME NEW s, Sound(s), NEW h \in Host, NEW list, s.ru \in [Host -> RuList]
  PROVE  LET t == WithList(s, h, list)
         IN /\ t.ja = s.ja /\ t.ru[h] = list
            /\ \A g \in Host \ {h} : t.ru[g] = s.ru[g]
BY DEF Sound, WithList

\* Update() leaves only entries behind that let one report pass, or none.
LEMMA UpdateEffect ==
  ASSUME NEW s, Sound(s), Listed(s), NEW h \in Host
  PROVE  LET t == Update(s, h)
         IN /\ t.ja = s.ja
            /\ t.ru[h] = <<>> <=> s.ru[h] = <<>>
            /\ ~Fresh(t.ru[h])
            /\ Fresh(s.ru[h]) <=> Lasts(t.ru[h])
            /\ \A g \in Host \ {h} : t.ru[g] = s.ru[g]
<1> DEFINE old == s.ru[h]
           F(i) == IF old[i] = SKIP_JR THEN SKIP_JR_SEND_ACK ELSE SKIP_JR_REMOVE
           new == [i \in DOMAIN old |-> F(i)]
<1>1. Update(s, h) = WithList(s, h, new)
  BY DEF Update
<1>2. old \in Seq(RuState) /\ s.ru \in [Host -> RuList]
  BY DEF Listed, RuList
<1>3. DOMAIN old = 1 .. Len(old) /\ Len(old) \in Nat
  BY <1>2
<1>4. \A i \in DOMAIN old : F(i) \in RuState
  BY DEF RuState
<1>5. (Fresh(old) <=> Lasts(new)) /\ ~Fresh(new)
  <2>1. DOMAIN new = DOMAIN old
    OBVIOUS
  <2>2. \A i \in DOMAIN old : /\ new[i] # SKIP_JR
                              /\ new[i] # SKIP_JR_REMOVE <=> old[i] = SKIP_JR
    BY DEF SKIP_JR, SKIP_JR_SEND_ACK, SKIP_JR_REMOVE
  <2> HIDE DEF F, new, old
  <2>3. Fresh(old) <=> Lasts(new)
    BY <2>1, <2>2 DEF Fresh, Lasts
  <2>4. ~Fresh(new)
    BY <2>1, <2>2 DEF Fresh
  <2> QED BY <2>3, <2>4
<1> HIDE DEF F, old
<1>6. new \in Seq(RuState) /\ Len(new) = Len(old)
  BY <1>3, <1>4
<1>7. new = <<>> <=> old = <<>>
  BY <1>2, <1>6, EmptySeq
<1> HIDE DEF new
<1> QED BY <1>1, <1>2, <1>5, <1>7, ListEffect DEF old

LEMMA Pairs ==
  ASSUME NEW e \in RuState, NEW f \in RuState
  PROVE  /\ <<e>> \o <<f>> = <<e, f>> /\ <<e>> \o <<>> = <<e>>
         /\ <<>> \o <<e>> = <<e>> /\ <<>> \o <<>> = <<>>
<1>1. /\ <<e>> \in Seq(RuState) /\ Len(<<e>>) = 1 /\ <<e>>[1] = e
      /\ <<f>> \in Seq(RuState) /\ Len(<<f>>) = 1 /\ <<f>>[1] = f
      /\ <<e, f>> \in Seq(RuState) /\ Len(<<e, f>>) = 2
      /\ <<e, f>>[1] = e /\ <<e, f>>[2] = f
  OBVIOUS
<1> DEFINE c == <<e>> \o <<f>>
<1>2. c \in Seq(RuState) /\ Len(c) = 2 /\ c[1] = e /\ c[2] = f
  BY <1>1, ConcatProperties
<1> HIDE DEF c
<1>3. \A i \in 1 .. 2 : c[i] = <<e, f>>[i]
  BY <1>1, <1>2
<1>4. c = <<e, f>>
  BY <1>1, <1>2, <1>3, SeqEqual
<1>5. <<e>> \in Seq(RuState) /\ <<>> \in Seq(RuState)
  OBVIOUS
<1> QED BY <1>4, <1>5, ConcatEmptySeq DEF c

\* Purge() removes a list of entries that are obsolete, and keeps what there is
\* to wait for in the others.
LEMMA PurgeEffect ==
  ASSUME NEW s, Sound(s), s.ru \in [Host -> RuList], NEW h \in Host
  PROVE  LET t == Purge(s, h)
         IN /\ t.ja = s.ja
            /\ Lasts(s.ru[h]) <=> t.ru[h] # <<>>
            /\ Fresh(s.ru[h]) <=> Fresh(t.ru[h])
            /\ \A g \in Host \ {h} : t.ru[g] = s.ru[g]
<1> DEFINE old == s.ru[h]
           Left(i) == IF old[i] = SKIP_JR_REMOVE THEN <<>> ELSE <<old[i]>>
           new == CASE old = <<>> -> <<>> [] Len(old) = 1 -> Left(1)
                    [] OTHER -> Left(1) \o Left(2)
<1>1. Purge(s, h) = WithList(s, h, new)
  BY DEF Purge
<1>2. old \in RuList /\ old \in Seq(RuState) /\ DOMAIN old = 1 .. Len(old)
  BY DEF RuList
<1>3. /\ \A e, f : <<e>> # <<>> /\ <<e, f>> # <<>>
      /\ \A e : (Fresh(<<e>>) <=> e = SKIP_JR)
      /\ \A e, f : (Fresh(<<e, f>>) <=> e = SKIP_JR \/ f = SKIP_JR)
      /\ ~Fresh(<<>>) /\ ~Lasts(<<>>)
  BY DEF Fresh, Lasts
<1>4. (Lasts(old) <=> new # <<>>) /\ (Fresh(old) <=> Fresh(new))
  <2>1. CASE old = <<>>
    BY <1>3, <2>1
  <2>2. CASE Len(old) = 1
    <3>1. old # <<>> /\ DOMAIN old = {1}
      <4>1. 1 .. 1 = {1}
        OBVIOUS
      <4>2. Len(<<>>) = 0 /\ 0 # 1
        OBVIOUS
      <4> HIDE DEF old
      <4>3. DOMAIN old = 1 .. 1
        BY <1>2, <2>2, Zenon
      <4>4. old # <<>>
        BY <2>2, <4>2, Zenon
      <4> QED BY <4>1, <4>3, <4>4
    <3>2. new = Left(1)
      BY <2>2, <3>1
    <3>3. /\ Lasts(old) <=> old[1] # SKIP_JR_REMOVE
          /\ Fresh(old) <=> old[1] = SKIP_JR
      BY <3>1 DEF Lasts, Fresh
    <3> HIDE DEF new, old
    <3> QED BY <1>3, <3>2, <3>3 DEF SKIP_JR, SKIP_JR_REMOVE
  <2>3. CASE Len(old) = 2
    <3>1. /\ new = Left(1) \o Left(2) /\ DOMAIN old = {1, 2} /\ old # <<>>
          /\ old[1] \in RuState /\ old[2] \in RuState
      BY <1>2, <2>3
    <3>2. /\ Lasts(old) <=> old[1] # SKIP_JR_REMOVE \/ old[2] # SKIP_JR_REMOVE
          /\ Fresh(old) <=> old[1] = SKIP_JR \/ old[2] = SKIP_JR
      BY <3>1 DEF Lasts, Fresh
    <3> DEFINE e == old[1]
               f == old[2]
    <3>3. new = IF e = SKIP_JR_REMOVE
                  THEN IF f = SKIP_JR_REMOVE THEN <<>> ELSE <<f>>
                  ELSE IF f = SKIP_JR_REMOVE THEN <<e>> ELSE <<e, f>>
      BY <3>1, Pairs
    <3> HIDE DEF new, old, e, f
    <3>4. Lasts(old) <=> new # <<>>
      BY <1>3, <3>2, <3>3 DEF e, f
    <3>5. Fresh(old) <=> Fresh(new)
      BY <1>3, <3>2, <3>3 DEF e, f, SKIP_JR, SKIP_JR_REMOVE
    <3> QED BY <3>4, <3>5
  <2> HIDE DEF new, old
  <2> QED BY <1>2, <2>1, <2>2, <2>3, Sizes
<1> HIDE DEF new, old
<1> QED BY <1>1, <1>4, ListEffect DEF old

\* A report of a host that has to wait has no effect on the job, and the host
\* has to wait on.
LEMMA SkipEffect ==
  ASSUME NEW s, Sound(s), Listed(s), NEW h \in Host, NEW jr, s.ru[h] # <<>>
  PROVE  LET t == SkipRestarted(s, h, jr)
         IN /\ t.ja.status = s.ja.status /\ t.ja.host = s.ja.host
            /\ Lasts(t.ru[h])
            /\ Fresh(s.ru[h]) => Fresh(t.ru[h])
            /\ \A g \in Host \ {h} : t.ru[g] = s.ru[g]
<1> DEFINE list == [s.ru[h] EXCEPT ![1] = SKIP_JR]
           back == WithList(s, h, list)
<1>1. /\ s.ru \in [Host -> RuList] /\ s.ru[h] \in Seq(RuState) /\ 1 \in DOMAIN s.ru[h]
      /\ Head(s.ru[h]) = s.ru[h][1]
  <2>1. s.ru[h] \in Seq(RuState) /\ s.ru \in [Host -> RuList]
    BY DEF Listed, RuList
  <2>2. DOMAIN s.ru[h] = 1 .. Len(s.ru[h]) /\ Len(s.ru[h]) \in Nat /\ Len(s.ru[h]) # 0
    BY <2>1, LenProperties, EmptySeq
  <2> QED BY <2>1, <2>2
<1>2. CASE Head(s.ru[h]) = SKIP_JR_REMOVE
  <2>1. SkipRestarted(s, h, jr) = SendAck(back, "ACK_SIGNAL_JOB")
    BY <1>2 DEF SkipRestarted
  <2>2. Fresh(list)
    BY <1>1 DEF Fresh
  <2> HIDE DEF list
  <2>3. /\ Sound(back) /\ back.ja = s.ja /\ back.ru[h] = list
        /\ \A g \in Host \ {h} : back.ru[g] = s.ru[g]
    BY <1>1, ListFine, ListEffect DEF Fine
  <2> HIDE DEF back
  <2>4. SendAck(back, "ACK_SIGNAL_JOB").ja = back.ja /\ SendAck(back, "ACK_SIGNAL_JOB").ru = back.ru
    BY <2>3 DEF SendAck, Sound
  <2> QED BY <2>1, <2>2, <2>3, <2>4, FreshIsNotEmpty
<1>3. CASE Head(s.ru[h]) # SKIP_JR_REMOVE /\ jr.state = "JEXITING"
  <2> DEFINE j == [s.ja EXCEPT !.state = @ \ {"JDEFERRED_REQ"}]
             u == Undeferred(s)
  <2>1. SkipRestarted(s, h, jr) = SendAck(u, "ACK_JOB_EXIT")
    BY <1>3 DEF SkipRestarted
  <2>2. j.status = s.ja.status /\ j.host = s.ja.host
    BY DEF Sound, JaTask
  <2> HIDE DEF j
  <2>3. u.ja = j /\ u.ru = s.ru
    BY DEF Sound, WithTask, Undeferred, j
  <2>4. Sound(u)
    BY UndeferredFine DEF Fine
  <2> HIDE DEF u
  <2>5. SendAck(u, "ACK_JOB_EXIT").ja = u.ja /\ SendAck(u, "ACK_JOB_EXIT").ru = u.ru
    BY <2>4 DEF SendAck, Sound
  <2>6. Lasts(s.ru[h])
    BY <1>1, <1>3 DEF Lasts
  <2> QED BY <2>1, <2>2, <2>3, <2>5, <2>6
<1>4. CASE Head(s.ru[h]) # SKIP_JR_REMOVE /\ jr.state # "JEXITING"
  <2>1. SkipRestarted(s, h, jr) = s
    BY <1>4 DEF SkipRestarted
  <2>2. Lasts(s.ru[h])
    BY <1>1, <1>4 DEF Lasts
  <2> QED BY <2>1, <2>2
<1> QED BY <1>2, <1>3, <1>4

LEMMA RunningEffect ==
  ASSUME NEW s, Sound(s)
  PROVE  LET t == Running(s)
         IN /\ t.ja.host = s.ja.host /\ t.ru = s.ru
            /\ \/ t.ja.status = s.ja.status
               \/ s.ja.status = "JTRANSFERING" /\ t.ja.status = "JRUNNING"
<1> DEFINE warned == IF Deleted(s.ja) THEN SendAck(s, "ACK_SIGNAL_JOB") ELSE s
<1>1. /\ warned.ja = s.ja /\ warned.ru = s.ru /\ Sound(warned)
      /\ SendAck(s, "ACK_SIGNAL_JOB").ja = s.ja /\ SendAck(s, "ACK_SIGNAL_JOB").ru = s.ru
  <2>1. SendAck(s, "ACK_SIGNAL_JOB").ja = s.ja /\ SendAck(s, "ACK_SIGNAL_JOB").ru = s.ru
    BY DEF SendAck, Sound
  <2>2. Sound(SendAck(s, "ACK_SIGNAL_JOB"))
    BY AckFine DEF Fine, Ack
  <2> QED BY <2>1, <2>2
<1>2. Running(s) = CASE s.ja.status = "buried" -> SendAck(s, "ACK_SIGNAL_JOB")
                     [] s.ja.status = "JTRANSFERING" -> Arrived(warned)
                     [] s.ja.status = "JRUNNING" -> warned
                     [] OTHER -> s
  BY DEF Running
<1> HIDE DEF warned
<1>3. CASE s.ja.status = "JTRANSFERING"
  <2> DEFINE j == [warned.ja EXCEPT !.status = "JRUNNING"]
             arrived == WithTask(warned, j)
  <2>1. Running(s) = [arrived EXCEPT !.resend = 0]
    BY <1>2, <1>3 DEF Arrived
  <2>2. j.status = "JRUNNING" /\ j.host = s.ja.host
    BY <1>1 DEF Sound, JaTask
  <2> HIDE DEF j
  <2>3. arrived = [ja |-> j, resend |-> warned.resend, ru |-> warned.ru, acks |-> warned.acks]
    BY <1>1 DEF Sound, WithTask
  <2> HIDE DEF arrived
  <2>4. Running(s).ja = j /\ Running(s).ru = warned.ru
    BY <2>1, <2>3
  <2> QED BY <1>1, <1>3, <2>2, <2>4
<1>4. CASE s.ja.status = "buried"
  BY <1>1, <1>2, <1>4
<1>5. CASE s.ja.status \notin {"JTRANSFERING", "buried"}
  BY <1>1, <1>2, <1>5
<1> QED BY <1>3, <1>4, <1>5

\* Finish() ends the job, and no host has to wait longer than before.
LEMMA FinishEffect ==
  ASSUME NEW s, Sendable(s), s.ru \in [Host -> RuList]
  PROVE  LET t == Finish(s)
         IN /\ t.ja.status = "JFINISHED" /\ t.ja.host = NoHost
            /\ \A g \in Host : Waits(t.ru[g]) <= Waits(s.ru[g])
<1> DEFINE a == [s.ja EXCEPT !.status = "JFINISHED", !.host = NoHost]
           Rest(h) == IF s.ru[h] = <<>> THEN <<>> ELSE Tail(s.ru[h])
           lists == [h \in Host |-> Rest(h)]
           finished == WithTask(s, a)
<1>1. Finish(s) = [finished EXCEPT !.ru = lists]
  BY DEF Finish
<1>2. a.status = "JFINISHED" /\ a.host = NoHost
  BY DEF Sendable, JaTask
<1>3. ASSUME NEW g \in Host PROVE Waits(Rest(g)) <= Waits(s.ru[g])
  <2>1. CASE s.ru[g] = <<>>
    BY <2>1, WaitsOf
  <2>2. CASE s.ru[g] # <<>>
    BY <2>2, TailWaits
  <2> QED BY <2>1, <2>2
<1> HIDE DEF a, Rest
<1>4. finished = [ja |-> a, resend |-> s.resend, ru |-> s.ru, acks |-> s.acks]
  BY DEF Sendable, WithTask
<1> HIDE DEF finished
<1>5. Finish(s).ja = a /\ Finish(s).ru = lists
  BY <1>1, <1>4
<1> QED BY <1>2, <1>3, <1>5

\* Reschedule() takes the job away, and its host has to wait.
LEMMA RescheduleEffect ==
  ASSUME NEW s, Sendable(s), s.ja.host \in Host, s.ru \in [Host -> RuList]
  PROVE  LET t == Reschedule(s)
         IN /\ t.ja.status = "JIDLE" /\ t.ja.host = NoHost
            /\ Fresh(t.ru[s.ja.host])
            /\ \A g \in Host \ {s.ja.host} : t.ru[g] = s.ru[g]
<1> DEFINE j == [s.ja EXCEPT !.status = "JIDLE", !.host = NoHost,
                             !.state = @ \cap {"JDEFERRED_REQ"}]
           t == WithTask(s, j)
           list == Append(s.ru[s.ja.host], SKIP_JR)
<1>1. Reschedule(s) = WithList(t, s.ja.host, list)
  BY DEF Reschedule
<1>2. t = [ja |-> j, resend |-> s.resend, ru |-> s.ru, acks |-> s.acks]
  BY DEF Sendable, WithTask
<1>3. j.status = "JIDLE" /\ j.host = NoHost
  BY DEF Sendable, JaTask
<1>4. Fresh(list)
  <2>1. s.ru[s.ja.host] \in Seq(RuState)
    BY DEF RuList
  <2>2. /\ list[Len(s.ru[s.ja.host]) + 1] = SKIP_JR
        /\ Len(s.ru[s.ja.host]) + 1 \in DOMAIN list
    BY <2>1
  <2> QED BY <2>2 DEF Fresh
<1> HIDE DEF j, list
<1>5. /\ WithList(t, s.ja.host, list).ja = j
      /\ WithList(t, s.ja.host, list).ru = [s.ru EXCEPT ![s.ja.host] = list]
  BY <1>2 DEF WithList
<1> QED BY <1>1, <1>3, <1>4, <1>5

LEMMA JobExitEffect ==
  ASSUME NEW s, Sound(s), s.ja.status \in Sent, s.ru \in [Host -> RuList], NEW outcome
  PROVE  LET t == JobExit(s, outcome)
         IN /\ t.ja.host = NoHost /\ s.ja.host \in Host
            /\ \/ /\ t.ja.status = "JFINISHED" /\ (Deleted(s.ja) \/ outcome = "done")
                  /\ \A g \in Host : Waits(t.ru[g]) <= Waits(s.ru[g])
               \/ /\ t.ja.status = "JIDLE"
                  /\ Fresh(t.ru[s.ja.host])
                  /\ \A g \in Host \ {s.ja.host} : t.ru[g] = s.ru[g]
<1> DEFINE c == [s EXCEPT !.resend = 0]
<1>1. /\ c = [ja |-> c.ja, resend |-> c.resend, ru |-> c.ru, acks |-> c.acks]
      /\ c.ja = s.ja /\ c.resend = 0 /\ c.acks = s.acks /\ c.ru = s.ru
  BY CancelFields DEF Sound
<1>2. JobExit(s, outcome) = IF Deleted(s.ja) \/ outcome = "done" THEN Finish(c) ELSE Reschedule(c)
  BY DEF JobExit
<1> HIDE DEF c
<1>3. Sendable(c) /\ s.ja.host \in Host BY <1>1 DEF Sendable, Sound
<1>4. CASE Deleted(s.ja) \/ outcome = "done"
  BY <1>1, <1>2, <1>3, <1>4, FinishEffect
<1>5. CASE ~(Deleted(s.ja) \/ outcome = "done")
  BY <1>1, <1>2, <1>3, <1>5, RescheduleEffect
<1> QED BY <1>4, <1>5

-----------------------------------------------------------------------------
(* What a commit may do to the job and to the lists                          *)

Stays(s) ==
  /\ s.ja.host = ja.host
  /\ s.ja.status = ja.status \/ (ja.status = "JTRANSFERING" /\ s.ja.status = "JRUNNING")
  /\ \A g \in Host : s.ru[g] = ru[g]

Moves(s) ==
  /\ ja.status \in Sent /\ ja.host \in Host
  /\ s.ja.status = "JIDLE" /\ s.ja.host = NoHost
  /\ Fresh(s.ru[ja.host])
  /\ \A g \in Host \ {ja.host} : s.ru[g] = ru[g]

Ends(s) ==
  /\ ja.status \notin Ended
  /\ s.ja.status = "JFINISHED" /\ s.ja.host = NoHost
  /\ \A g \in Host : Waits(s.ru[g]) <= Waits(ru[g])

Result(s) == Sound(s) /\ Listed(s) /\ (Stays(s) \/ Moves(s) \/ Ends(s))

LEMMA EndedWaits ==
  ASSUME NEW s, Ends(s), NEW h \in Host, ru[h] = <<>>
  PROVE  s.ru[h] = <<>>
<1>1. Waits(s.ru[h]) <= 0 /\ Waits(s.ru[h]) \in 0 .. 2
  BY WaitsOf DEF Ends
<1>2. Waits(s.ru[h]) = 0
  BY <1>1
<1> QED BY <1>2, WaitsOf

LEMMA AckResult ==
  ASSUME NEW s, Result(s), NEW ack \in Ack
  PROVE  Result(SendAck(s, ack))
<1>1. Sound(SendAck(s, ack)) /\ Listed(SendAck(s, ack))
  BY AckFine, AckListed DEF Result, Fine
<1>2. SendAck(s, ack).ja = s.ja /\ SendAck(s, ack).ru = s.ru
  BY DEF SendAck, Sound, Result
<1> QED BY <1>1, <1>2 DEF Result, Stays, Moves, Ends

LEMMA ExitedResult ==
  ASSUME NEW s, Result(s), NEW outcome
  PROVE  Result(Exited(s, outcome))
<1>1. CASE s.ja.status \notin Sent
  <2>1. Exited(s, outcome) = SendAck(s, "ACK_JOB_EXIT")
    BY <1>1 DEF Exited
  <2> QED BY <2>1, AckResult DEF Ack
<1>2. CASE s.ja.status \in Sent
  <2> DEFINE t == JobExit(s, outcome)
  <2>1. Exited(s, outcome) = SendAck(t, "ACK_JOB_EXIT")
    BY <1>2 DEF Exited
  <2>2. Stays(s) /\ ja.status \in Sent
    BY <1>2 DEF Result, Stays, Moves, Ends, Sent
  <2>3. Sound(t) /\ Listed(t)
    BY JobExitFine, JobExitListed DEF Result, Fine
  <2>4. /\ t.ja.host = NoHost /\ s.ja.host \in Host
        /\ \/ /\ t.ja.status = "JFINISHED"
              /\ \A g \in Host : Waits(t.ru[g]) <= Waits(s.ru[g])
           \/ /\ t.ja.status = "JIDLE"
              /\ Fresh(t.ru[s.ja.host])
              /\ \A g \in Host \ {s.ja.host} : t.ru[g] = s.ru[g]
    BY <1>2, JobExitEffect DEF Result, Listed
  <2> HIDE DEF t
  <2>5. Moves(t) \/ Ends(t)
    BY <2>2, <2>4 DEF Stays, Moves, Ends, Sent, Ended
  <2>6. Result(t)
    BY <2>3, <2>5 DEF Result
  <2> QED BY <2>1, <2>6, AckResult DEF Ack
<1> QED BY <1>1, <1>2

LEMMA RunningResult ==
  ASSUME NEW s, Result(s)
  PROVE  Result(Running(s))
<1> DEFINE t == Running(s)
<1>1. Sound(t) /\ Listed(t)
  BY RunningFine, RunningListed DEF Result, Fine
<1>2. /\ t.ja.host = s.ja.host /\ t.ru = s.ru
      /\ \/ t.ja.status = s.ja.status
         \/ s.ja.status = "JTRANSFERING" /\ t.ja.status = "JRUNNING"
  BY RunningEffect DEF Result
<1> HIDE DEF t
<1>3. Stays(s) => Stays(t)
  BY <1>2 DEF Stays
<1>4. Moves(s) => Moves(t)
  BY <1>2 DEF Moves
<1>5. Ends(s) => Ends(t)
  BY <1>2 DEF Ends
<1> QED BY <1>1, <1>3, <1>4, <1>5 DEF Result, t

\* One entry of a report of a host that did not have to wait.
LEMMA JobReportedResult ==
  ASSUME NEW s, Result(s), NEW h \in Host, ru[h] = <<>>, NEW jr
  PROVE  Result(JobReported(s, h, jr))
<1>1. CASE s.ru[h] = <<>>
  <2>1. JobReported(s, h, jr) \in {Exited(s, jr.outcome), Running(s)}
    BY <1>1 DEF JobReported
  <2> QED BY <2>1, ExitedResult, RunningResult
<1>2. CASE s.ru[h] # <<>>
  <2> DEFINE t == SkipRestarted(s, h, jr)
  <2>1. JobReported(s, h, jr) = t
    BY <1>2 DEF JobReported
  <2>2. Sound(t) /\ Listed(t)
    BY <1>2, SkipRestartedFine, SkipRestartedListed DEF Result, Fine
  <2>3. /\ t.ja.status = s.ja.status /\ t.ja.host = s.ja.host
        /\ Fresh(s.ru[h]) => Fresh(t.ru[h])
        /\ \A g \in Host \ {h} : t.ru[g] = s.ru[g]
    BY <1>2, SkipEffect DEF Result
  <2> HIDE DEF t
  <2>4. Moves(s) /\ ja.host = h
    BY <1>2, EndedWaits DEF Result, Stays, Moves
  <2>5. Moves(t)
    BY <2>3, <2>4 DEF Moves
  <2> QED BY <2>1, <2>2, <2>5 DEF Result
<1> QED BY <1>1, <1>2

LEMMA PurgeResult ==
  ASSUME NEW s, Result(s), NEW h \in Host, ru[h] = <<>>
  PROVE  Result(Purge(s, h)) /\ (Stays(s) => Stays(Purge(s, h)))
<1> DEFINE t == Purge(s, h)
<1>1. Sound(t) /\ Listed(t)
  <2>1. PICK list \in RuList : /\ Len(list) <= Len(s.ru[h])
                               /\ Purge(s, h) = WithList(s, h, list)
    BY PurgedList DEF Result
  <2> QED BY <2>1, ListFine, ListListed DEF Result, Fine
<1>2. /\ t.ja = s.ja
      /\ Lasts(s.ru[h]) <=> t.ru[h] # <<>>
      /\ Fresh(s.ru[h]) <=> Fresh(t.ru[h])
      /\ \A g \in Host \ {h} : t.ru[g] = s.ru[g]
  BY PurgeEffect DEF Result, Listed
<1> HIDE DEF t
<1>3. s.ru[h] = <<>> => \A g \in Host : t.ru[g] = s.ru[g]
  BY <1>2, LastsIsNotEmpty
<1>4. Stays(s) => Stays(t)
  BY <1>2, <1>3 DEF Stays
<1>5. Moves(s) => Moves(t)
  <2>1. CASE ja.host = h
    BY <1>2, <2>1 DEF Moves
  <2>2. CASE ja.host # h
    BY <1>2, <1>3, <2>2 DEF Moves
  <2> QED BY <2>1, <2>2
<1>6. Ends(s) => Ends(t)
  BY <1>2, <1>3, EndedWaits DEF Ends
<1> QED BY <1>1, <1>4, <1>5, <1>6 DEF Result, t

LEMMA UpdateSound ==
  ASSUME NEW s, Sound(s), Listed(s), NEW h \in Host
  PROVE  Sound(Update(s, h)) /\ Listed(Update(s, h))
BY UpdatedList, ListFine, ListListed DEF Fine

\* A report of a host that did not have to wait.
LEMMA ReportApplied ==
  ASSUME MasterInv, RuInv, NEW h \in Host, ru[h] = <<>>, NEW list
  PROVE  LET s == ReportResult(Snapshot, h, list)
         IN Result(s) /\ (list = <<>> => Stays(s))
<1> DEFINE u == Update(Snapshot, h)
           v == ProcessJobReport(u, h, list)
<1>1. /\ Sound(Snapshot) /\ Listed(Snapshot) /\ Snapshot.ja = ja /\ Snapshot.ru = ru
  BY SnapshotListed DEF Snapshot
<1>2. Result(u) /\ Stays(u)
  <2>1. Sound(u) /\ Listed(u)
    BY <1>1, UpdateSound
  <2>2. /\ u.ja = ja /\ u.ru[h] = <<>>
        /\ \A g \in Host \ {h} : u.ru[g] = ru[g]
    BY <1>1, UpdateEffect
  <2> HIDE DEF u
  <2> QED BY <2>1, <2>2 DEF Result, Stays
<1>3. ReportResult(Snapshot, h, list) = Purge(v, h)
  BY DEF ReportResult
<1> HIDE DEF u
<1>4. Result(v) /\ (list = <<>> => v = u)
  <2>1. Result(JobReported(u, h, list[1]))
    BY <1>2, JobReportedResult
  <2>2. Result(JobReported(JobReported(u, h, list[1]), h, list[2]))
    BY <2>1, JobReportedResult
  <2>3. /\ v \in {u, JobReported(u, h, list[1]), JobReported(JobReported(u, h, list[1]), h, list[2])}
        /\ list = <<>> => v = u
    BY DEF ProcessJobReport
  <2> HIDE DEF v
  <2> QED BY <1>2, <2>1, <2>2, <2>3
<1> HIDE DEF v
<1> QED BY <1>2, <1>3, <1>4, PurgeResult

-----------------------------------------------------------------------------
(* A report of a host that has to wait                                       *)

\* The list of h is another one; the rest is as it was.
Waiting(s, h) ==
  /\ Sound(s) /\ Listed(s)
  /\ s.ja.status = ja.status /\ s.ja.host = ja.host
  /\ \A g \in Host \ {h} : s.ru[g] = ru[g]

LEMMA SkipWaiting ==
  ASSUME NEW h \in Host, NEW s, Waiting(s, h), s.ru[h] # <<>>, NEW jr
  PROVE  Waiting(JobReported(s, h, jr), h) /\ Lasts(JobReported(s, h, jr).ru[h])
<1> DEFINE t == SkipRestarted(s, h, jr)
<1>1. JobReported(s, h, jr) = t
  BY DEF JobReported
<1>2. Sound(t) /\ Listed(t)
  BY SkipRestartedFine, SkipRestartedListed DEF Waiting, Fine
<1>3. /\ t.ja.status = s.ja.status /\ t.ja.host = s.ja.host
      /\ Lasts(t.ru[h])
      /\ \A g \in Host \ {h} : t.ru[g] = s.ru[g]
  BY SkipEffect DEF Waiting
<1> HIDE DEF t
<1> QED BY <1>1, <1>2, <1>3 DEF Waiting

\* It is counted, and one that names the job is not the last.
LEMMA ReportCounted ==
  ASSUME MasterInv, RuInv, NEW h \in Host, ru[h] # <<>>, NEW list
  PROVE  LET s == ReportResult(Snapshot, h, list)
         IN /\ Waiting(s, h)
            /\ list = <<>> => Waits(s.ru[h]) = Waits(ru[h]) - 1
            /\ list # <<>> => Waits(s.ru[h]) \in {1, 2}
<1> DEFINE u == Update(Snapshot, h)
           v == ProcessJobReport(u, h, list)
           s == Purge(v, h)
<1>1. /\ Sound(Snapshot) /\ Listed(Snapshot) /\ Snapshot.ja = ja /\ Snapshot.ru = ru
  BY SnapshotListed DEF Snapshot
<1>2. Waiting(u, h) /\ u.ru[h] # <<>> /\ ~Fresh(u.ru[h]) /\ (Fresh(ru[h]) <=> Lasts(u.ru[h]))
  <2>1. Sound(u) /\ Listed(u)
    BY <1>1, UpdateSound
  <2>2. /\ u.ja = ja /\ u.ru[h] # <<>> /\ ~Fresh(u.ru[h])
        /\ Fresh(ru[h]) <=> Lasts(u.ru[h])
        /\ \A g \in Host \ {h} : u.ru[g] = ru[g]
    BY <1>1, UpdateEffect
  <2> HIDE DEF u
  <2> QED BY <2>1, <2>2 DEF Waiting
<1>3. ReportResult(Snapshot, h, list) = s
  BY DEF ReportResult
<1> HIDE DEF u
<1>4. Waiting(v, h) /\ (list = <<>> => v = u) /\ (list # <<>> => Lasts(v.ru[h]))
  <2>1. Waiting(JobReported(u, h, list[1]), h) /\ Lasts(JobReported(u, h, list[1]).ru[h])
    BY <1>2, SkipWaiting
  <2>2. JobReported(u, h, list[1]).ru[h] # <<>>
    BY <2>1, LastsIsNotEmpty
  <2>3. /\ Waiting(JobReported(JobReported(u, h, list[1]), h, list[2]), h)
        /\ Lasts(JobReported(JobReported(u, h, list[1]), h, list[2]).ru[h])
    BY <2>1, <2>2, SkipWaiting
  <2>4. /\ list # <<>> => v \in {JobReported(u, h, list[1]),
                                 JobReported(JobReported(u, h, list[1]), h, list[2])}
        /\ list = <<>> => v = u
    BY DEF ProcessJobReport
  <2> HIDE DEF v
  <2> QED BY <1>2, <2>1, <2>3, <2>4
<1> HIDE DEF v
<1>5. /\ Waiting(s, h)
      /\ Lasts(v.ru[h]) <=> s.ru[h] # <<>>
      /\ Fresh(v.ru[h]) <=> Fresh(s.ru[h])
  <2>1. Sound(s) /\ Listed(s)
    <3>1. PICK new \in RuList : Len(new) <= Len(v.ru[h]) /\ Purge(v, h) = WithList(v, h, new)
      BY <1>4, PurgedList DEF Waiting
    <3> QED BY <1>4, <3>1, ListFine, ListListed DEF Waiting, Fine
  <2>2. /\ s.ja = v.ja
        /\ Lasts(v.ru[h]) <=> s.ru[h] # <<>>
        /\ Fresh(v.ru[h]) <=> Fresh(s.ru[h])
        /\ \A g \in Host \ {h} : s.ru[g] = v.ru[g]
    BY <1>4, PurgeEffect DEF Waiting, Listed
  <2> HIDE DEF s
  <2> QED BY <1>4, <2>1, <2>2 DEF Waiting
<1> HIDE DEF s
<1>6. ASSUME list = <<>> PROVE Waits(s.ru[h]) = Waits(ru[h]) - 1
  <2>1. ~Fresh(s.ru[h]) /\ (Fresh(ru[h]) <=> s.ru[h] # <<>>)
    BY <1>2, <1>4, <1>5, <1>6
  <2>2. CASE Fresh(ru[h])
    <3>1. Waits(ru[h]) = 2 /\ Waits(s.ru[h]) = 1
      BY <2>1, <2>2 DEF Waits, Fresh
    <3> QED BY <3>1
  <2>3. CASE ~Fresh(ru[h])
    <3>1. Waits(ru[h]) = 1 /\ Waits(s.ru[h]) = 0
      BY <2>1, <2>3 DEF Waits, Fresh
    <3> QED BY <3>1
  <2> QED BY <2>2, <2>3
<1>7. ASSUME list # <<>> PROVE Waits(s.ru[h]) \in {1, 2}
  <2>1. s.ru[h] # <<>>
    BY <1>4, <1>5, <1>7
  <2> QED BY <2>1 DEF Waits
<1> QED BY <1>3, <1>5, <1>6, <1>7

-----------------------------------------------------------------------------
(* The mapping                                                               *)

LEMMA MailAppended ==
  ASSUME NEW q \in Seq(MasterMessage), NEW m \in MasterMessage
  PROVE  Mail(Append(q, m)) = Append(Mail(q), Kind(m))
<1>1. /\ Append(q, m) \in Seq(MasterMessage) /\ Len(Append(q, m)) = Len(q) + 1
      /\ DOMAIN Append(q, m) = 1 .. Len(q) + 1 /\ DOMAIN q = 1 .. Len(q) /\ Len(q) \in Nat
      /\ Append(q, m)[Len(q) + 1] = m
      /\ \A i \in 1 .. Len(q) : Append(q, m)[i] = q[i]
  OBVIOUS
<1> DEFINE K == {Kind(e) : e \in MasterMessage}
           a == Mail(Append(q, m))
           b == Append(Mail(q), Kind(m))
<1>2. Mail(q) \in Seq(K) /\ Len(Mail(q)) = Len(q) /\ \A i \in 1 .. Len(q) : Mail(q)[i] = Kind(q[i])
  BY <1>1 DEF Mail
<1>3. /\ a \in Seq(K) /\ Len(a) = Len(q) + 1
      /\ a[Len(q) + 1] = Kind(m) /\ \A i \in 1 .. Len(q) : a[i] = Kind(q[i])
  BY <1>1 DEF Mail
<1>4. Kind(m) \in K
  OBVIOUS
<1> HIDE DEF K
<1>5. /\ b \in Seq(K) /\ Len(b) = Len(q) + 1
      /\ b[Len(q) + 1] = Kind(m) /\ \A i \in 1 .. Len(q) : b[i] = Kind(q[i])
  BY <1>1, <1>2, <1>4, AppendProperties
<1> HIDE DEF a, b
<1>6. \A i \in 1 .. Len(q) + 1 : a[i] = b[i]
  BY <1>1, <1>3, <1>5
<1>7. a = b
  BY <1>3, <1>5, <1>6, SeqEqual
<1> QED BY <1>7 DEF a, b

LEMMA MailRead ==
  ASSUME NEW q \in Seq(MasterMessage), q # <<>>
  PROVE  /\ Mail(q) # <<>> /\ Head(Mail(q)) = Kind(Head(q))
         /\ Mail(Tail(q)) = Tail(Mail(q))
<1> DEFINE K == {Kind(e) : e \in MasterMessage}
           a == Mail(Tail(q))
           b == Tail(Mail(q))
<1>1. /\ Tail(q) \in Seq(MasterMessage) /\ Len(Tail(q)) = Len(q) - 1 /\ Head(q) = q[1]
      /\ DOMAIN q = 1 .. Len(q) /\ Len(q) \in Nat /\ Len(q) # 0
      /\ DOMAIN Tail(q) = 1 .. Len(Tail(q))
      /\ \A i \in 1 .. Len(Tail(q)) : Tail(q)[i] = q[i + 1]
  BY HeadTailProperties, LenProperties, EmptySeq
<1>2. Mail(q) \in Seq(K) /\ Len(Mail(q)) = Len(q) /\ \A i \in 1 .. Len(q) : Mail(q)[i] = Kind(q[i])
  BY <1>1 DEF Mail
<1>3. a \in Seq(K) /\ Len(a) = Len(q) - 1 /\ \A i \in 1 .. Len(q) - 1 : a[i] = Kind(q[i + 1])
  BY <1>1 DEF Mail
<1> HIDE DEF K
<1>4. Mail(q) # <<>>
  BY <1>1, <1>2, EmptySeq
<1>5. /\ b \in Seq(K) /\ Len(b) = Len(q) - 1 /\ Head(Mail(q)) = Mail(q)[1]
      /\ \A i \in 1 .. Len(q) - 1 : b[i] = Kind(q[i + 1])
  BY <1>1, <1>2, <1>4, HeadTailProperties
<1> HIDE DEF a, b
<1>6. a = b
  BY <1>3, <1>5, SeqEqual
<1> QED BY <1>1, <1>2, <1>4, <1>5, <1>6 DEF a, b

HostInv == ja.status = "JIDLE" => ja.host = NoHost

JobUntouched == UNCHANGED <<ja.host, ja.status \in Ended, [h \in Host |-> Waits(ru[h])]>>

AbstractStep == [KeptAway!QuarantineNext]_(KeptAway!quarantineVars)

\* A commit is one of the three things that can happen to the job.
LEMMA Committed ==
  ASSUME MasterInv, RuInv, HostInv, NEW s, Result(s), ja' = s.ja, ru' = s.ru
  PROVE  /\ HostInv'
         /\ Stays(s) => JobUntouched
         /\ Moves(s) => KeptAway!TakenAway
         /\ Ends(s) => KeptAway!Ended
<1>1. HostInv'
  BY DEF Result, Stays, Moves, Ends, HostInv
<1>2. Stays(s) => JobUntouched
  BY DEF Stays, JobUntouched, Ended
<1>3. ASSUME Moves(s) PROVE KeptAway!TakenAway
  <2> DEFINE w == [h \in Host |-> Waits(ru[h])]
  <2>1. Waits(s.ru[ja.host]) = 2
    BY <1>3, FreshIsNotEmpty DEF Moves
  <2>2. w' = [w EXCEPT ![ja.host] = 2]
    BY <1>3, <2>1 DEF Moves
  <2>3. /\ ja.host \in Host /\ ja'.host = NoHost
        /\ (ja'.status \in {"JFINISHED", "buried"}) = (ja.status \in {"JFINISHED", "buried"})
    BY <1>3 DEF Moves, Sent
  <2> QED BY <2>2, <2>3 DEF KeptAway!TakenAway
<1>4. ASSUME Ends(s) PROVE KeptAway!Ended
  <2> DEFINE w == [h \in Host |-> Waits(ru[h])]
  <2>1. \A g \in Host : ru'[g] = s.ru[g] /\ Waits(ru'[g]) \in 0 .. 2 /\ Waits(ru'[g]) <= Waits(ru[g])
    BY <1>4, WaitsOf DEF Ends
  <2>2. w' \in [Host -> 0 .. 2] /\ \A g \in Host : w'[g] <= w[g]
    BY <2>1
  <2>3. ja'.host = NoHost /\ ja.status \notin {"JFINISHED", "buried"} /\ ja'.status = "JFINISHED"
    BY <1>4 DEF Ends, Ended
  <2> QED BY <2>2, <2>3 DEF KeptAway!Ended
<1> QED BY <1>1, <1>2, <1>3, <1>4

LEMMA Unseen ==
  ASSUME HostInv, ru' = ru, toMaster' = toMaster, ja'.host = ja.host,
         ja'.status = ja.status \/ (ja.status \in Ended /\ ja'.status \in Ended)
  PROVE  AbstractStep /\ HostInv'
<1>1. (ja'.status \in {"JFINISHED", "buried"}) = (ja.status \in {"JFINISHED", "buried"})
  BY DEF Ended
<1>2. UNCHANGED KeptAway!quarantineVars
  BY <1>1 DEF KeptAway!quarantineVars
<1> QED BY <1>2 DEF AbstractStep, HostInv, Ended

LEMMA MovesUnread ==
  ASSUME toMaster' = toMaster,
         KeptAway!TakenAway \/ KeptAway!Ended \/ \E h \in Host : KeptAway!GivenTo(h)
  PROVE  AbstractStep
BY DEF AbstractStep, KeptAway!QuarantineNext, KeptAway!JobMoves

\* A report is read.
LEMMA ReceiveReportMaps ==
  ASSUME MasterInv, RuInv, HostInv, ExecdInv, NEW h \in Host, ReceiveReport(h)
  PROVE  AbstractStep /\ HostInv'
<1> DEFINE list == Head(toMaster[h]).jrs
           s == ReportResult(Snapshot, h, list)
           w == [g \in Host |-> Waits(ru[g])]
           mail == [g \in Host |-> Mail(toMaster[g])]
<1>1. /\ toMaster[h] # <<>> /\ Head(toMaster[h]).tag = "TAG_REPORT_REQUEST"
      /\ toMaster' = [toMaster EXCEPT ![h] = Tail(@)]
      /\ ja' = s.ja /\ ru' = s.ru
  BY DEF ReceiveReport, Commit
<1>2. toMaster \in [Host -> Seq(MasterMessage)]
  BY DEF ExecdInv, MessagesTypeOK
<1>3. /\ mail[h] # <<>> /\ mail' = [mail EXCEPT ![h] = Tail(@)]
      /\ Head(mail[h]) = IF list = <<>> THEN "silent" ELSE "names"
  BY <1>1, <1>2, MailRead DEF Kind
<1>4. CASE ru[h] = <<>>
  <2>1. Result(s) /\ (list = <<>> => Stays(s))
    BY <1>4, ReportApplied
  <2>2. w[h] = 0
    BY <1>4 DEF Waits
  <2> HIDE DEF s, list
  <2>3. /\ HostInv'
        /\ \/ JobUntouched
           \/ list # <<>> /\ (KeptAway!TakenAway \/ KeptAway!Ended)
    BY <1>1, <2>1, Committed DEF Result
  <2> HIDE DEF w, mail
  <2>4. KeptAway!Read(h)
    BY <1>3, <2>2, <2>3 DEF KeptAway!Read, JobUntouched, Ended, w, mail
  <2> QED BY <2>3, <2>4 DEF AbstractStep, KeptAway!QuarantineNext
<1>5. CASE ru[h] # <<>>
  <2>1. /\ Waiting(s, h)
        /\ list = <<>> => Waits(s.ru[h]) = Waits(ru[h]) - 1
        /\ list # <<>> => Waits(s.ru[h]) \in {1, 2}
    BY <1>5, ReportCounted
  <2>2. w[h] > 0
    BY <1>5 DEF Waits
  <2> HIDE DEF s, list
  <2>3. w' = [w EXCEPT ![h] = Waits(s.ru[h])]
    BY <1>1, <2>1 DEF Waiting
  <2>4. ja'.host = ja.host /\ ja'.status = ja.status
    BY <1>1, <2>1 DEF Waiting
  <2>5. KeptAway!Counted(h, Head(mail[h]))
    <3>1. (ja'.status \in {"JFINISHED", "buried"}) = (ja.status \in {"JFINISHED", "buried"})
      BY <2>4
    <3>2. CASE list = <<>>
      <4>1. Head(mail[h]) = "silent" /\ w' = [w EXCEPT ![h] = @ - 1]
        BY <1>3, <2>1, <2>3, <3>2
      <4> QED BY <2>2, <2>4, <3>1, <4>1 DEF KeptAway!Counted
    <3>3. CASE list # <<>>
      <4>1. Head(mail[h]) = "names" /\ w' \in {[w EXCEPT ![h] = n] : n \in {1, 2}}
        BY <1>3, <2>1, <2>3, <3>3
      <4> QED BY <2>2, <2>4, <3>1, <4>1 DEF KeptAway!Counted
    <3> QED BY <3>2, <3>3
  <2>6. KeptAway!Read(h)
    BY <1>3, <2>5 DEF KeptAway!Read
  <2> QED BY <2>4, <2>6 DEF AbstractStep, KeptAway!QuarantineNext, HostInv
<1> QED BY <1>4, <1>5

\* Any other message of a host is nothing to the lists.
LEMMA ReceiveSigAckMaps ==
  ASSUME HostInv, ExecdInv, NEW h \in Host, ReceiveSigAck(h)
  PROVE  AbstractStep /\ HostInv'
<1> DEFINE mail == [g \in Host |-> Mail(toMaster[g])]
<1>1. /\ toMaster[h] # <<>> /\ Head(toMaster[h]).tag = "ACK_SIGJOB"
      /\ toMaster' = [toMaster EXCEPT ![h] = Tail(@)]
      /\ ja' = ja /\ ru' = ru
  BY DEF ReceiveSigAck
<1>2. toMaster \in [Host -> Seq(MasterMessage)]
  BY DEF ExecdInv, MessagesTypeOK
<1>3. mail[h] # <<>> /\ mail' = [mail EXCEPT ![h] = Tail(@)] /\ Head(mail[h]) = "other"
  BY <1>1, <1>2, MailRead DEF Kind
<1>4. KeptAway!Read(h)
  BY <1>1, <1>3 DEF KeptAway!Read
<1> QED BY <1>1, <1>4 DEF AbstractStep, KeptAway!QuarantineNext, HostInv

LEMMA PostedMaps ==
  ASSUME HostInv, ExecdInv, UNCHANGED mvars, NEW h \in Host, NEW m \in MasterMessage,
         toMaster' = [toMaster EXCEPT ![h] = Append(@, m)]
  PROVE  AbstractStep /\ HostInv'
<1> DEFINE mail == [g \in Host |-> Mail(toMaster[g])]
<1>1. toMaster \in [Host -> Seq(MasterMessage)]
  BY DEF ExecdInv, MessagesTypeOK
<1>2. mail' = [mail EXCEPT ![h] = Append(@, Kind(m))]
  BY <1>1, MailAppended
<1>3. Kind(m) \in KeptAway!Kinds
  BY DEF Kind, KeptAway!Kinds
<1>4. KeptAway!Posted(h)
  BY <1>2, <1>3 DEF KeptAway!Posted, mvars
<1> QED BY <1>4 DEF AbstractStep, KeptAway!QuarantineNext, HostInv, mvars

LEMMA LostMaps ==
  ASSUME HostInv, ExecdInv, UNCHANGED mvars, NEW h \in Host,
         toMaster' \in {toMaster, [toMaster EXCEPT ![h] = <<>>]}
  PROVE  AbstractStep /\ HostInv'
<1> DEFINE mail == [g \in Host |-> Mail(toMaster[g])]
<1>1. CASE toMaster' = toMaster
  BY <1>1, Unseen DEF mvars
<1>2. CASE toMaster' = [toMaster EXCEPT ![h] = <<>>]
  <2>1. toMaster \in [Host -> Seq(MasterMessage)]
    BY DEF ExecdInv, MessagesTypeOK
  <2>2. Mail(<<>>) = <<>>
    BY DEF Mail
  <2>3. mail' = [mail EXCEPT ![h] = <<>>]
    BY <1>2, <2>1, <2>2
  <2>4. KeptAway!Lost(h)
    BY <2>3 DEF KeptAway!Lost, mvars
  <2> QED BY <2>4 DEF AbstractStep, KeptAway!QuarantineNext, HostInv, mvars
<1> QED BY <1>1, <1>2

LEMMA ExecdMaps ==
  ASSUME HostInv, ExecdInv, ExecdInv', UNCHANGED mvars, NEW h \in Host, ExecdStep(h)
  PROVE  AbstractStep /\ HostInv'
<1>1. CASE \/ ReceiveJob(h) \/ ReceiveAck(h) \/ StartJobs(h) \/ SaveSpool(h)
           \/ (\E r \in Run : ProcessEnds(h, r)) \/ Reap(h) \/ Restart(h) \/ Reconnect(h)
  <2>1. toMaster' = toMaster
    BY <1>1 DEF ReceiveJob, ReceiveAck, StartJobs, SaveSpool, ProcessEnds, Reap, Restart,
                Reconnect
  <2> QED BY <2>1, Unseen DEF mvars
<1>2. CASE ReceiveSignal(h)
  <2>1. [tag |-> "ACK_SIGJOB"] \in MasterMessage
    BY DEF MasterMessage
  <2> QED BY <1>2, <2>1, PostedMaps DEF ReceiveSignal
<1>3. CASE SendReport(h)
  <2>1. PICK list \in Reported(h) :
          toMaster' = [toMaster EXCEPT
            ![h] = Append(@, [tag |-> "TAG_REPORT_REQUEST", jrs |-> list])]
    BY <1>3 DEF SendReport
  <2> DEFINE m == [tag |-> "TAG_REPORT_REQUEST", jrs |-> list]
  <2>2. m \in MasterMessage
    <3>1. jrs[h] \in Seq(JobReport) /\ <<>> \in Seq(JobReport)
      BY DEF ExecdInv, ExecdTypeOK
    <3>2. ASSUME NEW i \in DOMAIN jrs[h] PROVE <<jrs[h][i]>> \in Seq(JobReport)
      <4>1. jrs[h][i] \in JobReport
        BY <3>1, <3>2, ElementOfSeq
      <4> QED BY <4>1
    <3>3. list \in Seq(JobReport)
      BY <2>1, <3>1, <3>2 DEF Reported
    <3> QED BY <3>3 DEF MasterMessage
  <2> QED BY <2>1, <2>2, PostedMaps
<1>4. CASE Crash(h)
  BY <1>4, LostMaps DEF Crash, Fault
<1>5. CASE Disconnect(h)
  BY <1>5, LostMaps DEF Disconnect, Fault
<1> QED BY <1>1, <1>2, <1>3, <1>4, <1>5 DEF ExecdStep

LEMMA StartJobMaps ==
  ASSUME MasterInv, HostInv, NEW h \in Host, StartJob(h)
  PROVE  AbstractStep /\ HostInv'
<1>1. /\ ja.status = "JIDLE" /\ ja.host = NoHost /\ ru[h] = <<>>
      /\ UNCHANGED <<toMaster, ru>>
  BY DEF StartJob, HostInv
<1>2. CASE ja'.status = "JTRANSFERING" /\ ja'.host = h
  <2> DEFINE w == [g \in Host |-> Waits(ru[g])]
  <2>1. w[h] = 0 /\ w' = w
    BY <1>1 DEF Waits
  <2> HIDE DEF w
  <2>2. KeptAway!GivenTo(h)
    BY <1>1, <1>2, <2>1 DEF KeptAway!GivenTo, w
  <2> QED BY <1>1, <1>2, <2>2, MovesUnread DEF HostInv
<1>3. CASE ja' = [ja EXCEPT !.state = {}]
  <2>1. ja'.status = ja.status /\ ja'.host = ja.host
    BY <1>3 DEF MasterInv, JaTask
  <2> QED BY <1>1, <2>1, Unseen
<1> QED BY <1>2, <1>3 DEF StartJob

\* The host that the job is moved away from.
LEMMA RescheduleFromMaps ==
  ASSUME MasterInv, RuInv, HostInv, NEW h \in Host, NEW state, RescheduleFrom(h, state),
         state \in SUBSET {"JDELETED", "JDEFERRED_REQ"}, "JDELETED" \notin state
  PROVE  AbstractStep /\ HostInv'
<1> DEFINE j == [ja EXCEPT !.state = state]
           t == WithTask(Snapshot, j)
           one == Append(ru[h], SKIP_JR_REMOVE)
           marked == WithList(t, h, one)
           s == JobExit(marked, "again")
<1>1. /\ ja.status \in Sent /\ ja.host = h /\ ru[h] = <<>> /\ Commit(s)
      /\ UNCHANGED toMaster
  BY DEF RescheduleFrom
<1>2. /\ j \in JaTask /\ j.status = ja.status /\ j.host = ja.host /\ j.state = state
  BY DEF MasterInv, JaTask
<1>3. ~Deleted(j) BY <1>2 DEF Deleted
<1> HIDE DEF j
<1>4. t = [ja |-> j, resend |-> resend, ru |-> ru, acks |-> <<>>]
  BY DEF Snapshot, WithTask
<1> HIDE DEF t
<1>5. Sound(t) BY <1>2, <1>3, <1>4 DEF Sound, MasterInv, ResendIsArmed
<1>6. Sound(marked) BY <1>5, ListFine DEF Fine
<1>7. one \in RuList /\ Len(one) = 1
  <2>1. one = <<SKIP_JR_REMOVE>> /\ SKIP_JR_REMOVE \in RuState
    BY <1>1 DEF RuState
  <2> QED BY <2>1, Entries
<1> HIDE DEF one
<1>8. marked.ja = j /\ marked.ru = [ru EXCEPT ![h] = one]
  BY <1>4 DEF WithList
<1> HIDE DEF marked
<1>9. /\ marked.ru \in [Host -> RuList] /\ \A g \in Host \ {h} : marked.ru[g] = ru[g]
      /\ Listed(marked)
  <2>1. marked.ru \in [Host -> RuList] /\ marked.ru[h] = one /\ marked.ja.host = h
    BY <1>1, <1>2, <1>7, <1>8 DEF RuInv
  <2>2. \A g \in Host \ {h} : marked.ru[g] = ru[g]
    BY <1>8 DEF RuInv
  <2>3. Len(marked.ru[marked.ja.host]) = 1
    BY <1>7, <2>1
  <2>4. Listed(marked)
    <3>1. Len(marked.ru[marked.ja.host]) <= 1
      BY <2>3
    <3> QED BY <2>1, <3>1 DEF Listed
  <2> QED BY <2>1, <2>2, <2>4
<1>10. Sound(s) /\ Listed(s)
  BY <1>6, <1>9, JobExitFine, JobExitListed DEF Fine
<1>11. /\ s.ja.host = NoHost
       /\ \/ s.ja.status = "JFINISHED" /\ (Deleted(marked.ja) \/ "again" = "done")
          \/ /\ s.ja.status = "JIDLE" /\ Fresh(s.ru[marked.ja.host])
             /\ \A g \in Host \ {marked.ja.host} : s.ru[g] = marked.ru[g]
  <2>1. marked.ja.status \in Sent
    BY <1>1, <1>2, <1>8
  <2> QED BY <1>6, <1>9, <2>1, JobExitEffect
<1>12. ~Deleted(marked.ja) /\ "again" # "done" /\ marked.ja.host = h
  BY <1>1, <1>2, <1>3, <1>8
<1> HIDE DEF s
<1>13. Moves(s)
  BY <1>1, <1>9, <1>11, <1>12 DEF Moves
<1>14. KeptAway!TakenAway /\ HostInv'
  BY <1>1, <1>10, <1>13, Committed DEF Result, Commit
<1> QED BY <1>1, <1>14, MovesUnread

LEMMA FinishMaps ==
  ASSUME MasterInv, RuInv, HostInv, ja.status \notin Ended, NEW s, Sound(s), Listed(s),
         ja' = s.ja, ru' = s.ru, s.ja = Finish(Snapshot).ja, s.ru = Finish(Snapshot).ru,
         UNCHANGED toMaster
  PROVE  AbstractStep /\ HostInv'
<1>1. /\ Sendable(Snapshot) /\ Snapshot.ru \in [Host -> RuList] /\ Snapshot.ru = ru
  BY SnapshotListed DEF Listed, Snapshot
<1>2. Ends(s)
  BY <1>1, FinishEffect DEF Ends
<1>3. KeptAway!Ended /\ HostInv'
  BY <1>2, Committed DEF Result
<1> QED BY <1>3, MovesUnread

LEMMA QmasterMaps ==
  ASSUME MasterInv, RuInv, HostInv, ExecdInv, QmasterStep
  PROVE  AbstractStep /\ HostInv'
<1>1. CASE ResendPops \/ ResendHandler \/ SignalResend \/ (\E h \in Host : HostUnknown(h))
  <2>1. ja' = ja /\ ru' = ru /\ toMaster' = toMaster
    BY <1>1 DEF ResendPops, ResendHandler, SignalResend, HostUnknown
  <2> QED BY <2>1, Unseen
<1>2. CASE DeleteSent
  <2>1. ja' = [ja EXCEPT !.state = @ \cup {"JDELETED"}] /\ ru' = ru /\ toMaster' = toMaster
    BY <1>2 DEF DeleteSent
  <2>2. ja'.status = ja.status /\ ja'.host = ja.host
    BY <2>1 DEF MasterInv, JaTask
  <2> QED BY <2>1, <2>2, Unseen
<1>3. CASE Bury
  <2>1. /\ ja.status = "JFINISHED" /\ ja' = [ja EXCEPT !.status = "buried"]
        /\ ru' = ru /\ toMaster' = toMaster
    BY <1>3 DEF Bury
  <2>2. ja'.status = "buried" /\ ja'.host = ja.host
    BY <2>1 DEF MasterInv, JaTask
  <2> QED BY <2>1, <2>2, Unseen DEF Ended
<1>4. CASE DeletePending
  <2>1. Sound(Finish(Snapshot)) /\ Listed(Finish(Snapshot))
    BY SnapshotListed, FinishFine, FinishListed DEF Fine, Listed
  <2> QED BY <1>4, <2>1, FinishMaps DEF DeletePending, Commit, Ended
<1>5. CASE DeleteForced
  <2> DEFINE f == Finish(Snapshot)
             s == [f EXCEPT !.resend = 0]
  <2>1. Sound(f) /\ Listed(f)
    BY SnapshotListed, FinishFine, FinishListed DEF Fine, Listed
  <2>2. f.ja.status = "JFINISHED"
    BY SnapshotListed, FinishFine
  <2>3. Commit(s) /\ toMaster' = toMaster /\ ja.status \in Sent
    BY <1>5 DEF DeleteForced
  <2>4. /\ s = [ja |-> f.ja, resend |-> 0, ru |-> f.ru, acks |-> f.acks]
    BY <2>1 DEF Sound
  <2> HIDE DEF s
  <2>5. Sound(s) /\ Listed(s)
    <3> HIDE DEF f
    <3>1. s.ja = f.ja /\ s.ru = f.ru /\ s.resend = 0 /\ s.acks = f.acks
      BY <2>4
    <3> QED BY <2>1, <2>2, <2>4, <3>1 DEF Sound, Listed, Sent, Deleted
  <2>6. s.ja = f.ja /\ s.ru = f.ru
    BY <2>4
  <2> QED BY <2>3, <2>5, <2>6, FinishMaps DEF Commit, Sent, Ended
<1>6. ASSUME NEW h \in Host, ReceiveReport(h) \/ ReceiveSigAck(h) \/ StartJob(h)
      PROVE  AbstractStep /\ HostInv'
  BY <1>6, ReceiveReportMaps, ReceiveSigAckMaps, StartJobMaps
<1>7. ASSUME NEW h \in Host, RescheduleUnknown(h) \/ ManualReschedule(h)
      PROVE  AbstractStep /\ HostInv'
  <2>1. ja.state \in SUBSET {"JDELETED", "JDEFERRED_REQ"} BY DEF MasterInv, JaTask
  <2>2. "JDELETED" \notin ja.state
    BY <1>7 DEF RescheduleUnknown, ManualReschedule, RescheduleFrom, Deleted
  <2>3. CASE RescheduleUnknown(h)
    BY <2>1, <2>2, <2>3, RescheduleFromMaps DEF RescheduleUnknown
  <2>4. CASE ManualReschedule(h)
    BY <2>1, <2>2, <2>4, RescheduleFromMaps DEF ManualReschedule
  <2> QED BY <1>7, <2>3, <2>4
<1> QED BY <1>1, <1>2, <1>3, <1>4, <1>5, <1>6, <1>7 DEF QmasterStep

LEMMA InitMaps == Init => KeptAway!QuarantineInit /\ HostInv
<1> SUFFICES ASSUME Init PROVE KeptAway!QuarantineInit /\ HostInv
  OBVIOUS
<1>1. /\ ja.status = "JIDLE" /\ ja.host = NoHost
      /\ ru = [h \in Host |-> <<>>] /\ toMaster = [h \in Host |-> <<>>]
  BY DEF Init, QmasterInit, MessagesInit
<1>2. Waits(<<>>) = 0 /\ Mail(<<>>) = <<>>
  BY DEF Waits, Mail
<1> QED BY <1>1, <1>2 DEF KeptAway!QuarantineInit, HostInv

\* The lists of the qmaster keep a host that the job was taken from away from
\* it until two of its reports have been read, the last of them one without
\* the job, whatever the daemons, the users and the network do.
THEOREM KeepsRescheduledAway == Spec => RescheduledIsKeptAway
<1>1. ASSUME MasterInv, RuInv, HostInv, ExecdInv, ExecdInv', [Next]_vars
      PROVE  AbstractStep /\ HostInv'
  <2>1. CASE QmasterStep
    BY <1>1, <2>1, QmasterMaps
  <2>2. CASE \E h \in Host : ExecdStep(h) /\ UNCHANGED mvars
    BY <1>1, <2>2, ExecdMaps
  <2>3. CASE UNCHANGED vars
    BY <1>1, <2>3, Unseen DEF vars, mvars
  <2> QED BY <1>1, <2>1, <2>2, <2>3 DEF Next
<1>2. Init => KeptAway!QuarantineInit /\ HostInv
  BY InitMaps
<1> QED BY <1>1, <1>2, MasterInvHolds, RuInvHolds, ExecdInvHolds, PTL
     DEF Spec, RescheduledIsKeptAway, KeptAway!QuarantineSpec, AbstractStep
=============================================================================
