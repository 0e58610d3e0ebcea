----------------------------- MODULE MCDevices ------------------------------
(***************************************************************************)
(* Drivers, with the devices behind them: the network card and DHCP (Net), *)
(* the USB host controller (Usb), the reports of keyboards and mice (Hid)  *)
(* and the disk (Storage).  A behaviour exercises the one that `subject`   *)
(* names.                                                                  *)
(***************************************************************************)
EXTENDS Net, Storage

VARIABLES
  subject,
  device, waits, command, configured, pending_intr_trb, interrupt_buffer, enqueue, cycle,
  trbs, event_ring, event_dequeue, event_cycle, stashed, hid, held, controller,
  keyboard, pressed     \* hid and held of HidReports

usbvars == <<device, waits, command, configured, pending_intr_trb, interrupt_buffer, enqueue,
             cycle, trbs, event_ring, event_dequeue, event_cycle, stashed, hid, held, controller>>
reportvars == <<keyboard, pressed>>

(* Two servers: one has an address for this client, the other only for     *)
(* another client of the same image, whose offers and acknowledgements     *)
(* this client takes for its own.                                          *)
CONSTANTS s1, s2
MCAddressOf == [s \in Servers |-> IF s = s1 THEN s1 ELSE None]
MCSiblingAddressOf == [s \in Servers |-> IF s = s2 THEN s2 ELSE None]

(* A keyboard and a mouse.  Rings and stash of two and three entries; all  *)
(* reports of the keyboard are empty here: HidReports has the others.      *)
Usages == [bs |-> "h"]
Host == INSTANCE Usb WITH
  Keyboards <- {"kbd"}, Mice <- {"mouse"}, Order <- <<"kbd", "mouse">>,
  KeyReports <- {[modifiers |-> {}, keys |-> <<"none">>]},
  MouseReports <- {[buttons |-> {0}, moved |-> TRUE]},
  KeySlots <- 1, KeyEvents <- 2, Letters <- {"h"}, Symbols <- {}, Navigation <- {},
  ControlOf <- Usages, XHCI_COMMAND_RING_SIZE <- 3, XHCI_TRANSFER_RING_SIZE <- 3,
  XHCI_EVENT_RING_SIZE <- 3, XHCI_COMPLETION_STASH <- 2, MaxIncidents <- 1, i <- device

(* All reports of two keys, with a letter, Backspace, a digit, an arrow    *)
(* and the error usage, and of three buttons.                              *)
HidReports == INSTANCE Hid WITH
  Keyboards <- {"kbd"}, Mice <- {"mouse"},
  KeyReports <- [modifiers : {{}, {"ctrl"}, {"shift"}},
                 keys : {"none", "h", "bs", "up", "err"} \X {"none", "h", "bs", "one", "err"}],
  MouseReports <- [buttons : {{}, {0}, {0, 1}, {1, 3}}, moved : BOOLEAN],
  KeySlots <- 2, KeyEvents <- 3, Letters <- {"h"}, Symbols <- {"one"}, Navigation <- {"up"},
  ControlOf <- Usages, hid <- keyboard, held <- pressed

(* A disk of three sectors.  The first holds a partition table, a table    *)
(* whose first entry wraps, one whose entry is longer than the disk, or    *)
(* the start of a volume; volumes fit where they are, and do not.  One     *)
(* timeout, and one failing request.                                       *)
MCContents == {"d", "fat1", "mbr", "wrap", "long", "fat2", "fat4"}
Partition(fat32, start_lba, sector_count) ==
  [fat32 |-> fat32, start_lba |-> start_lba, sector_count |-> sector_count]
MCTableOf == [c \in MCContents |->
  CASE c = "mbr" -> <<Partition(FALSE, 1, 1), Partition(TRUE, 1, 2), Partition(TRUE, 0, 3)>>
    [] c = "wrap" -> <<Partition(TRUE, 3, 5), Partition(TRUE, 1, 1)>>
    [] c = "long" -> <<Partition(TRUE, 2, 2)>>
    [] OTHER -> <<>>]
MCTotalOf == [c \in MCContents |->
  CASE c = "fat1" -> 1 [] c = "fat2" -> 2 [] c = "fat4" -> 4 [] OTHER -> 0]
DiskOf(first, rest) == [s \in 0 .. 2 |-> IF s = 0 THEN first ELSE rest]
MCDisks == {DiskOf("mbr", "fat2"), DiskOf("mbr", "fat4"), DiskOf("wrap", "fat1"),
            DiskOf("long", "fat1"), DiskOf("fat2", "d"), DiskOf("fat4", "d")}
-----------------------------------------------------------------------------
MCInit ==
  /\ subject \in {"net", "usb", "hid", "disk"}
  /\ Init /\ Host!Init /\ HidReports!HidInit
  /\ BlkInit /\ (subject # "disk" => disk = DiskOf("fat2", "d"))

MCNext ==
  /\ \/ subject = "net" /\ Next /\ UNCHANGED <<usbvars, reportvars, blkvars>>
     \/ subject = "usb" /\ Host!Next /\ UNCHANGED <<vars, reportvars, blkvars>>
     \/ subject = "hid" /\ HidReports!HidNext /\ UNCHANGED <<vars, usbvars, blkvars>>
     \/ subject = "disk" /\ BlkNext /\ UNCHANGED <<vars, usbvars, reportvars>>
  /\ UNCHANGED subject
-----------------------------------------------------------------------------
(* Usb: the completion of a transfer is never lost nor taken twice. *)
CompletionKept == subject = "usb" => Host!CompletionKept

(* Hid: the events agree with what the driver takes to be held. *)
HeldAgree ==
  /\ subject = "hid" => HidReports!HeldAgree
  /\ subject = "usb" => Host!HeldAgree
=============================================================================
