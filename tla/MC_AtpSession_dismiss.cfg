CONSTANTS
  MaxBuffer <- MCMaxBuffer
  MaxNotifications <- MCMaxNotifications
SPECIFICATION Spec
INVARIANTS
  NotificationsDismissable
