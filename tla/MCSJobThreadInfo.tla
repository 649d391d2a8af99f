-------------------------- MODULE MCSJobThreadInfo --------------------------
(* Model-checking values for SJobThreadInfo: S_job_execution files built  *)
(* from the line kinds the parser tells apart.                            *)
EXTENDS SJobThreadInfo

H            == Line("header", "", 0, TRUE)       \* Thread information
Th(i)        == Line("thread", "", i, TRUE)       \* Thread i
Ty(s)        == Line("type", s, 0, TRUE)          \* Type = s
Amf(f, ok)   == Line("type", "amf", f, ok)        \* Type = asynchronous must finish = f
Cpu(s)       == Line("cpu", s, 0, TRUE)           \* rt_cpu_number = ...
Adv(f, ok, w)== Line("adv", w, f, ok)             \* a job line naming advance_sim_time
O            == Line("other", "", 0, TRUE)

MCFiles ==
    { \* every thread described, frame time present
      <<H, Th(0), Ty("scheduled"), Cpu("num"), Th(1), Amf(2, TRUE), Cpu("unassigned"),
       Th(2), Ty("scheduled"), Cpu("num"), O, Adv(1, TRUE, "wide")>>,
      \* thread 1 asynchronous, thread 2 of an unknown type, thread 0 absent
      <<H, Th(1), Ty("asynchronous"), Cpu("num"), Th(2), Ty("other"), Cpu("num"),
       Adv(1, TRUE, "wide")>>,
      \* no advance_sim_time line: thread 0's frequency stays 0
      <<H, Th(0), Ty("scheduled"), Cpu("num"), Th(1), Amf(2, TRUE), Cpu("num")>>,
      \* values that do not parse
      <<H, Th(0), Ty("scheduled"), Cpu("bad"), Th(1), Amf(0, FALSE), Cpu("num"),
       Th(2), Ty("scheduled"), Cpu("num"), Adv(0, FALSE, "wide")>>,
      \* an advance_sim_time line of fewer than six fields
      <<H, Th(0), Ty("asynchronous"), Cpu("num"), Adv(1, TRUE, "narrow")>>,
      \* not a thread information file, an empty one, and none at all
      <<O, Th(0)>>, <<>>, NoFile }
\* a negative id (no thread), and the ids of the files above
MCThreadIds == -1..2
=============================================================================
