------------------------------ MODULE Devices -------------------------------
(***************************************************************************)
(* Finding the hardware at boot: the scan of the PCI buses (pci.c) and the *)
(* choice of the display (vesa.c).                                         *)
(*                                                                         *)
(* A machine maps <<bus, device, function>> to the registers of what is    *)
(* there.  A register is named for the field it holds; a device id stands  *)
(* for the pair of vendor and device.                                      *)
(***************************************************************************)
EXTENDS Text

CONSTANTS
    Buses,      \* bus numbers, 0 and up
    Devs, Funs  \* device and function numbers, 0 and up (32 and 8)

-----------------------------------------------------------------------------
(* Configuration space.                                                    *)

PCI_FAIL == "FFFF"

\* Mutant: the class code is read from its own byte.
LowField_class(reg) ==
    CASE reg = "secondary" -> "primary" [] reg = "prog_if" -> "rev_id" [] OTHER -> reg

\* pci_read_base shifts by whole words: of a register in the upper half of a
\* word, a caller that keeps one byte gets the register below it.
LowField(reg) ==
    CASE reg = "class_code" -> "sub_class"
      [] reg = "secondary"  -> "primary"
      [] reg = "prog_if"    -> "rev_id"
      [] OTHER -> reg

\* pci_read: all ones where nothing answers.
pci_read(m, b, d, f, reg) ==
    IF <<b, d, f>> \in DOMAIN m THEN m[<<b, d, f>>][LowField(reg)] ELSE PCI_FAIL

MultiFunction(header) == header \in {"80", PCI_FAIL}
IsBridge(m, b, d, f) ==
    pci_read(m, b, d, f, "class_code") = "06" /\ pci_read(m, b, d, f, "sub_class") = "04"

\* The tables of names, cut to the two displays and to the class of displays.
PciVenTable == <<[VenId |-> "qemu", VenShort |-> "Technical"], [VenId |-> "vbox", VenShort |-> "VirtualBox"]>>
PciDevTable == <<[VenId |-> "qemu", Chip |-> "VBE VESA"], [VenId |-> "vbox", Chip |-> "VBoxVideo 0x8168"]>>
PciClassCodeTable ==
    <<[BaseClass |-> "03", SubClass |-> "00", ProgIf |-> "00"], [BaseClass |-> "03", SubClass |-> "00", ProgIf |-> "01"],
      [BaseClass |-> "03", SubClass |-> "01", ProgIf |-> "00"], [BaseClass |-> "03", SubClass |-> "80", ProgIf |-> "00"]>>

\* pci_set_names: the first row for the vendor and for the device, the last
\* row for the class; 0 when there is none.
pci_set_names(id, bc, sc, prog_if) ==
    [ven   |-> FirstIn({i \in DOMAIN PciVenTable : PciVenTable[i].VenId = id}),
     dev   |-> FirstIn({i \in DOMAIN PciDevTable : PciDevTable[i].VenId = id}),
     class |-> LET S == {i \in DOMAIN PciClassCodeTable :
                            PciClassCodeTable[i] = [BaseClass |-> bc, SubClass |-> sc, ProgIf |-> prog_if]}
               IN  IF S = {} THEN 0 ELSE CHOOSE i \in S : \A j \in S : i >= j]

\* pci_set_header reads the addresses of a device with a standard header only;
\* the pointer to them is never set for another.
pci_set_header(m, b, d) ==
    IF pci_read(m, b, d, 0, "header") \in {"00", "80"} THEN pci_read(m, b, d, 0, "bar0") ELSE "unset"

pci_build_device(m, b, d) ==
    LET bc == pci_read(m, b, d, 0, "class_code")
        sc == pci_read(m, b, d, 0, "sub_class")
    IN  [bus |-> b, dev |-> d, id |-> pci_read(m, b, d, 0, "id"), class_code |-> bc, sub_class |-> sc,
         names |-> pci_set_names(pci_read(m, b, d, 0, "id"), bc, sc, pci_read(m, b, d, 0, "prog_if")),
         additional_info |-> pci_set_header(m, b, d)]

\* pci_scan_bus, which calls itself for the bus behind a bridge.  More calls
\* inside each other than there are buses means that it never ends.
Endless == [bus |-> -1, dev |-> -1, id |-> PCI_FAIL]
InOrder(S) == SetToSortSeq(S, LAMBDA a, b : a < b)
RECURSIVE pci_scan_bus(_, _, _)
pci_scan_bus(m, b, depth) ==
    LET Behind(d, f) == IF IsBridge(m, b, d, f) THEN pci_scan_bus(m, pci_read(m, b, d, f, "secondary"), depth + 1)
                        ELSE << >>
        Functions_of(d) == IF MultiFunction(pci_read(m, b, d, 0, "header"))
                           THEN FlattenSeq([i \in DOMAIN InOrder(Funs) |-> Behind(d, InOrder(Funs)[i])]) ELSE << >>
        At_device(d) == IF pci_read(m, b, d, 0, "id") = PCI_FAIL THEN << >>
                        ELSE Behind(d, 0) \o Functions_of(d) \o <<pci_build_device(m, b, d)>>
    IN  IF depth > Cardinality(Buses) THEN <<Endless>>
        ELSE FlattenSeq([i \in DOMAIN InOrder(Devs) |-> At_device(InOrder(Devs)[i])])

\* pci_initialise: for a host bridge of several functions, the loop ends at the
\* first function that exists.
pci_initialise(m) ==
    IF ~MultiFunction(pci_read(m, 0, 0, 0, "header")) THEN pci_scan_bus(m, 0, 1)
    ELSE LET first == FirstIn({f + 1 : f \in {g \in Funs : pci_read(m, 0, 0, g, "id") # PCI_FAIL}})
             upto  == IF first = 0 THEN Cardinality(Funs) ELSE first - 1
         IN  FlattenSeq([i \in 1..upto |-> pci_scan_bus(m, i - 1, 1)])

\* pci_get_device: the first device with that id, 0 if there is none.
pci_get_device(list, id) == FirstIn({i \in DOMAIN list : list[i].id = id})

-----------------------------------------------------------------------------
(* The display.                                                            *)

KnownVersions == {"B0C0", "B0C5"}   \* VESA_BOCHS_VER_OLDEST to _NEWEST

\* init_with_pci: one of two displays.  Its buffer is where the header says, or
\* anywhere when that was never set; a version that is not known is not set to
\* the size that is asked for, and 0 returned all the same.  mode is the size that
\* the display really has, "text" before it was set.
init_with_pci(list, size, version) ==
    LET i == pci_get_device(list, "qemu")
        k == IF i # 0 THEN i ELSE pci_get_device(list, "vbox")
    IN  IF k = 0 THEN << >>
        ELSE <<[lfb |-> list[k].additional_info, size |-> size,
                mode |-> IF version \in KnownVersions THEN size ELSE "text"]>>

Resolutions == {<<"8">>, <<"6">>}   \* two of the six that are known

\* initialise_vesa: the parameter "res" must name a known resolution and the
\* boot loader have set it, or have left the display to the kernel.
initialise_vesa(cmd, framebuffer, list, version) ==
    LET res == params_find_by_key(cmd, <<"r">>)
    IN  IF res \notin Resolutions THEN << >>
        ELSE IF framebuffer.lfb = "NULL" \/ framebuffer.size = << >> THEN init_with_pci(list, res, version)
        ELSE IF framebuffer.size # res THEN << >>
        ELSE <<[lfb |-> framebuffer.lfb, size |-> framebuffer.size, mode |-> framebuffer.size]>>
=============================================================================
