------------------------------ MODULE KcpConfig ------------------------------
(***************************************************************************)
(* KcpConfig and KcpSessionConfig (src/src/core/config.rs,                 *)
(* src/src/tokio_rt/config.rs): the presets, and what ikcp_nodelay,        *)
(* ikcp_setmtu and ikcp_wndsize make of a configuration when apply_config  *)
(* hands it to an engine.  Times are milliseconds; None is no timeout.     *)
(***************************************************************************)
EXTENDS Integers

None == -1

Default == [nodelay |-> FALSE, interval |-> 100, resend |-> 0, nc |-> FALSE,
            mtu |-> 1400, snd_wnd |-> 32, rcv_wnd |-> 128]

Fast == [nodelay |-> TRUE, interval |-> 10, resend |-> 2, nc |-> TRUE,
         mtu |-> 1400, snd_wnd |-> 128, rcv_wnd |-> 128]

Normal == [nodelay |-> TRUE, interval |-> 40, resend |-> 2, nc |-> FALSE,
           mtu |-> 1400, snd_wnd |-> 64, rcv_wnd |-> 128]

SessionConfig(kcp, timeout) ==
    [kcp_config |-> kcp, flush_interval |-> kcp.interval, timeout |-> timeout,
     flush_write |-> TRUE, recv_buf_size |-> 65536]

SessionDefault == SessionConfig(Default, None)
SessionFast == SessionConfig(Fast, 30000)
SessionNormal == SessionConfig(Normal, 60000)

\* ikcp_setmtu refuses what leaves too little room for data.
MtuRefused(mtu) == mtu < 50

\* ikcp_nodelay
MinRto(nodelay) == IF nodelay THEN 30 ELSE 100
Clamped(interval) == IF interval > 5000 THEN 5000 ELSE IF interval < 10 THEN 10 ELSE interval

\* ikcp_wndsize: 0 keeps what ikcp_create chose, and the receive window is never
\* smaller than the longest message.
SndWnd(wnd) == IF wnd > 0 THEN wnd ELSE 32
RcvWnd(wnd) == IF wnd < 128 THEN 128 ELSE wnd

\* The fields of the control block that apply_config sets.
Applied(c) ==
    [nodelay |-> c.nodelay,
     rx_minrto |-> MinRto(c.nodelay),
     interval |-> Clamped(c.interval),
     fastresend |-> IF c.resend >= 0 THEN c.resend ELSE 0,
     nocwnd |-> c.nc,
     mss |-> c.mtu - 24,
     snd_wnd |-> SndWnd(c.snd_wnd),
     rcv_wnd |-> RcvWnd(c.rcv_wnd)]
=============================================================================
