------------------------------- MODULE NsNode -------------------------------
(***************************************************************************)
(* A node of the simulator (network/model/node.cc): its devices, its       *)
(* applications, the handlers that get the packets its devices receive,    *)
(* and the listeners that are told of devices.                             *)
(*                                                                         *)
(* A device hands a packet that is for the node (or for all) to the        *)
(* receive callback, and every packet it hears to the promiscuous callback *)
(* if one was set; what else a device does is not part of the repository.  *)
(* Initializing an object twice has no effect.                             *)
(***************************************************************************)
EXTENDS Naturals, SequencesExt, Places

CONSTANTS
  Device,
  Application,
  Handler,
  Protocol,   \* the numbers packets carry, 0 is not one of them
  Listener,
  NoDevice,   \* the null pointer
  MaxHandlers \* bound of the model: handlers, and listeners, at one time

ASSUME NoDeviceAssumption == NoDevice \notin Device
ASSUME ProtocolAssumption == Protocol \subseteq Nat \ {0}

VARIABLES
  m_devices,
  m_applications,
  m_handlers,                \* entries [handler, protocol, device, promiscuous, there]: there
                             \* is a history, the devices of the node at the registration
  m_deviceAdditionListeners, \* entries [listener, told]: told is a history, the devices told of
  promiscuous,               \* devices with a promiscuous receive callback
  scheduled,                 \* objects whose Initialize is an event to come
  initialized

nodeVars == <<m_devices, m_applications, m_handlers, m_deviceAdditionListeners, promiscuous,
              scheduled, initialized>>

NodeInit ==
  /\ m_devices = <<>>
  /\ m_applications = <<>>
  /\ m_handlers = <<>>
  /\ m_deviceAdditionListeners = <<>>
  /\ promiscuous = {}
  /\ scheduled = {}
  /\ initialized = {}
-----------------------------------------------------------------------------
NotifyDeviceAdded(device) ==
  [i \in DOMAIN m_deviceAdditionListeners |->
     [m_deviceAdditionListeners[i] EXCEPT !.told = Append(@, device)]]

AddDevice ==
  \E d \in Device \ (Range(m_devices) \cup initialized \cup scheduled) :
    /\ m_devices' = Append(m_devices, d)
    /\ scheduled' = scheduled \cup {d}
    /\ m_deviceAdditionListeners' = NotifyDeviceAdded(d)
    /\ UNCHANGED <<m_applications, m_handlers, promiscuous, initialized>>

AddApplication ==
  \E a \in Application \ (Range(m_applications) \cup initialized \cup scheduled) :
    /\ m_applications' = Append(m_applications, a)
    /\ scheduled' = scheduled \cup {a}
    /\ UNCHANGED <<m_devices, m_handlers, m_deviceAdditionListeners, promiscuous,
                   initialized>>

\* The event of AddDevice or AddApplication.
Initialize ==
  \E o \in scheduled :
    /\ scheduled' = scheduled \ {o}
    /\ initialized' = initialized \cup {o}
    /\ UNCHANGED <<m_devices, m_applications, m_handlers, m_deviceAdditionListeners,
                   promiscuous>>

DoInitialize ==
  /\ initialized' = initialized \cup Range(m_devices) \cup Range(m_applications)
  /\ UNCHANGED <<m_devices, m_applications, m_handlers, m_deviceAdditionListeners,
                 promiscuous, scheduled>>

\* Disposing a device takes its callbacks away.
DoDispose ==
  /\ m_deviceAdditionListeners' = <<>>
  /\ m_handlers' = <<>>
  /\ m_devices' = <<>>
  /\ m_applications' = <<>>
  /\ promiscuous' = {}
  /\ UNCHANGED <<scheduled, initialized>>
-----------------------------------------------------------------------------
\* Without a device the callback is set on the devices there are: one that is added
\* later gets none, although the comment of node.h:177 attaches the handler to it.
RegisterProtocolHandler ==
  /\ Len(m_handlers) < MaxHandlers
  /\ \E h \in Handler, p \in Protocol \cup {0}, d \in Range(m_devices) \cup {NoDevice},
        promisc \in BOOLEAN :
       /\ promiscuous' = promiscuous \cup
            (IF ~promisc THEN {} ELSE IF d = NoDevice THEN Range(m_devices) ELSE {d})
       /\ m_handlers' = Append(m_handlers, [handler |-> h, protocol |-> p, device |-> d,
                                            promiscuous |-> promisc,
                                            there |-> Range(m_devices)])
  /\ UNCHANGED <<m_devices, m_applications, m_deviceAdditionListeners, scheduled,
                 initialized>>

\* The first entry of the handler goes, further ones stay.
UnregisterProtocolHandler ==
  \E h \in Handler :
    /\ m_handlers' = RemoveFirstMatch(m_handlers, LAMBDA e : e.handler = h)
    /\ UNCHANGED <<m_devices, m_applications, m_deviceAdditionListeners, promiscuous,
                   scheduled, initialized>>

\* Bug: the new listener is not told of the devices there are.
BugListenerNotTold(listener) ==
  Append(m_deviceAdditionListeners, [listener |-> listener, told |-> <<>>])

ListenersWith(listener) ==
  Append(m_deviceAdditionListeners, [listener |-> listener, told |-> m_devices])

RegisterDeviceAdditionListener ==
  /\ Len(m_deviceAdditionListeners) < MaxHandlers
  /\ \E l \in Listener : m_deviceAdditionListeners' = ListenersWith(l)
  /\ UNCHANGED <<m_devices, m_applications, m_handlers, promiscuous, scheduled,
                 initialized>>

UnregisterDeviceAdditionListener ==
  \E l \in Listener :
    /\ m_deviceAdditionListeners' =
         RemoveFirstMatch(m_deviceAdditionListeners, LAMBDA e : e.listener = l)
    /\ UNCHANGED <<m_devices, m_applications, m_handlers, promiscuous, scheduled,
                   initialized>>
-----------------------------------------------------------------------------
Attached(entry, device, protocol) ==
  /\ entry.device \in {NoDevice, device}
  /\ entry.protocol \in {0, protocol}

\* Bug: a handler is called from either callback.
BugEitherCallback(device, protocol, promisc) ==
  InOrder({i \in DOMAIN m_handlers : Attached(m_handlers[i], device, protocol)},
          Len(m_handlers))

\* The places of the entries whose handlers are called, in order.
ReceiveFromDevice(device, protocol, promisc) ==
  InOrder({i \in DOMAIN m_handlers : /\ Attached(m_handlers[i], device, protocol)
                                     /\ m_handlers[i].promiscuous = promisc},
          Len(m_handlers))

NonPromiscReceiveFromDevice(device, protocol) == ReceiveFromDevice(device, protocol, FALSE)
PromiscReceiveFromDevice(device, protocol) == ReceiveFromDevice(device, protocol, TRUE)

\* What a device's packet calls, through the one callback and the other.
ForwardUp(device, protocol, toNode) ==
  (IF toNode THEN NonPromiscReceiveFromDevice(device, protocol) ELSE <<>>)
  \o (IF device \in promiscuous THEN PromiscReceiveFromDevice(device, protocol) ELSE <<>>)

NodeNext ==
  \/ AddDevice \/ AddApplication \/ Initialize \/ DoInitialize \/ DoDispose
  \/ RegisterProtocolHandler \/ UnregisterProtocolHandler
  \/ RegisterDeviceAdditionListener \/ UnregisterDeviceAdditionListener

NodeSpec == NodeInit /\ [][NodeNext]_nodeVars
-----------------------------------------------------------------------------
\* Every listener has been told of every device of the node, once and in the order of
\* their places, whichever came first, the device or the listener
\* (RegisterDeviceAdditionListener, AddDevice).
ListenersTold ==
  \A i \in DOMAIN m_deviceAdditionListeners : m_deviceAdditionListeners[i].told = m_devices

\* A packet that a device hands to both callbacks reaches each handler attached to its
\* protocol and device, once for each registration that is left: one that does not
\* listen to everything just when the packet is for the node, one that does if it was
\* registered for the device or, for all devices, when the device was there already;
\* no other handler is called, whatever came and went in between
\* (RegisterProtocolHandler, UnregisterProtocolHandler, ReceiveFromDevice).
OncePerPacket ==
  \A d \in Range(m_devices), p \in Protocol, toNode \in BOOLEAN :
    LET calls == ForwardUp(d, p, toNode)
        May(e) == Attached(e, d, p) /\ (e.promiscuous \/ toNode)
        Must(e) == May(e) /\ (e.promiscuous => e.device = d \/ d \in e.there)
    IN /\ IsInjective(calls)
       /\ {i \in DOMAIN m_handlers : Must(m_handlers[i])} \subseteq Range(calls)
       /\ Range(calls) \subseteq {i \in DOMAIN m_handlers : May(m_handlers[i])}
=============================================================================
