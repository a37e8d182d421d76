------------------------------ MODULE AltFdMC ------------------------------
(***************************************************************************)
(* Instance of AltFd for TLC: the JTAG UART, which has no open and no      *)
(* lseek and whose close may refuse, and a file system mounted at /mnt,    *)
(* with the files /mnt/a and /x.  Standard error is one of them here, so   *)
(* that its opening may fail.                                              *)
(***************************************************************************)
EXTENDS AltFd, TLC

CONSTANTS dev_null, jtag_uart, zip_fs, nameless, null

NamesOf == (dev_null :> <<"dev", "null">>) @@ (jtag_uart :> <<"dev", "jtag_uart">>)
             @@ (zip_fs :> <<"mnt">>) @@ (nameless :> null)
CallbacksOf == (dev_null :> {"write"})
                 @@ (jtag_uart :> {"close", "read", "write", "ioctl"})
                 @@ (zip_fs :> {"open", "read", "lseek", "fstat"}) @@ (nameless :> {})
Paths == {<<"dev", "null">>, <<"dev", "jtag_uart">>, <<"mnt", "a">>, <<"x">>}
Streams == <<[fd |-> 1, name |-> <<"dev", "jtag_uart">>, flags |-> {"WRONLY"}],
             [fd |-> 0, name |-> <<"dev", "jtag_uart">>, flags |-> {}],
             [fd |-> 2, name |-> <<"mnt", "a">>, flags |-> {"WRONLY"}]>>
DeviceSet == {jtag_uart, nameless}
FSSet == {zip_fs}
FlagSets == {{}, {"RDWR", "NONBLOCK", "EXCL"}}
=============================================================================
