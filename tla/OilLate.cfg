\* A callback the oil temperature's test has waited for, and does not count.
CONSTANTS
    vin = vin
    seat = seat
    odometer = odometer
    speed = speed
    gear = gear
    door = door
    oilTemp = oilTemp
    Prop = {vin, seat, odometer, speed, gear, door, oilTemp}
    TypeOf <- Types
    Listings <- SomeListings
    Answers <- SomeAnswers
    StaticProps = {vin}
    EnumProps = {gear}
    UnitProps = {}
    OilTemp = oilTemp
    Expected <- Table
    NoValue = NoValue
SPECIFICATION Spec
CHECK_DEADLOCK FALSE
INVARIANTS
    OilInTime
