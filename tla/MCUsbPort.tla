----------------------------- MODULE MCUsbPort -----------------------------
(* A device with two settings of its interface: the bulk endpoint to write *)
(* to is neither its last endpoint nor its last bulk endpoint.             *)
EXTENDS UsbPort

Endpoint(address, in, bulk, size) ==
  [address |-> address, in |-> in, bulk |-> bulk, size |-> size]

MCDescriptors ==
  { <<Endpoint(129, TRUE, FALSE, 64), Endpoint(130, TRUE, TRUE, 64),
      Endpoint(2, FALSE, TRUE, 64), Endpoint(130, TRUE, TRUE, 512)>> }

=============================================================================
